---- MODULE Spec2Model ----
(***************************************************************************)
(* SecureVibe security core: the layered encryption engine                 *)
(* (utils/secureEncryption.js, class SecureVibeEncryption) and the         *)
(* threat-detection middleware (detectSuspiciousActivity).                 *)
(*                                                                         *)
(* Library primitives (AES-GCM, AES-CBC, SHA-256, randomBytes) are         *)
(* modelled symbolically: a ciphertext is a term that names the key, the   *)
(* IV and the data it was made from; a fresh random key is a new key       *)
(* number; decryption under another key, or of altered bytes, fails or     *)
(* yields garbage.  The repository's own arithmetic (securevibeTransform   *)
(* and its reverse) is computed byte by byte, width 8 bits.                *)
(* Times are milliseconds since the engine was constructed.                *)
(***************************************************************************)
EXTENDS Integers, Sequences, FiniteSets, TLC

VARIABLES
  now,              \* Date.now(), relative to process start
  masterKey,        \* this.masterKey: the number of the current random key
  lastKeyRotation,  \* this.lastKeyRotation
  attackPatterns,   \* this.attackPatterns: Map ip -> record
  threatLevel,      \* this.threatLevel
  securityLog,      \* this.securityLog: its length, its newest records, and how
                    \* many KEY_ROTATION records were ever pushed
  wire,             \* the ciphertext the caller currently holds
  issued,           \* what the last successful encrypt was called with
  rotations,        \* how many times the master key has been rotated
  result,           \* outcome of the last encrypt/decrypt call, as the caller sees it
  requestTracker,   \* global.requestTracker: Map `${ip}-${path}` -> {count, firstRequest}
  response,         \* outcome of the last detectSuspiciousActivity call
  accepted,         \* per key, the times of the requests passed to next()
  users,            \* the User collection: id -> {apiKey, isPaid, securityLogs}
  userRequestTracker, \* global.userRequestTracker: Map `user_${id}` -> counter
  verdict,          \* outcome of the last userRateLimit / verifyRequestSignature call
  pending,          \* the userRateLimit invocations suspended at await User.findOne
  served,           \* per counter key, the invocations completed in the running window
  magicLinks,       \* global.magicLinks: Map id -> {expires, used, redirectUri}
  cleanupInitialized, \* global.magicLinkCleanupInitialized
  linkLog,          \* per magic-link id ever made: when it was made, when tokens were made
  answer,           \* outcome of the last call of a magic-link route
  nodeEnv,          \* process.env.NODE_ENV
  rendered          \* what errorMiddleware sent last

engineVars == <<masterKey, lastKeyRotation, attackPatterns, threatLevel, securityLog,
                wire, issued, rotations, result>>
trackerVars == <<requestTracker, response, accepted>>
userVars == <<users, userRequestTracker, verdict>>
asyncVars == <<pending, served>>
webVars == <<magicLinks, cleanupInitialized, linkLog, answer, nodeEnv, rendered>>
vars == <<now, masterKey, lastKeyRotation, attackPatterns, threatLevel, securityLog,
          wire, issued, rotations, result, requestTracker, response, accepted,
          users, userRequestTracker, verdict, pending, served,
          magicLinks, cleanupInitialized, linkLog, answer, nodeEnv, rendered>>

(***************************************************************************)
(* Program constants                                                       *)
(***************************************************************************)
\* Buffer.from('SECUREVIBE_AUTH_2024', 'utf8')
SECUREVIBE_SIGNATURE ==
  <<83, 69, 67, 85, 82, 69, 86, 73, 66, 69, 95, 65, 85, 84, 72, 95, 50, 48, 50, 52>>
KEY_ROTATION_INTERVAL == 3600000
LAYER2_ROUND == 1
IV_LENGTH == 16
AUTH_TAG_LENGTH == 16
CBC_BLOCK == 16
TIMESTAMP_LENGTH == 13
DATE_NOW_DIGITS == 13
REQUEST_CEILING == 100
BURST_WINDOW == 1000
BURST_CEILING == 10
HIGH_ABOVE == 2
CRITICAL_ABOVE == 5
LOG_CAP == 1000

(***************************************************************************)
(* Bounds of the model                                                     *)
(***************************************************************************)
LogTail == 2        \* how many of the newest log records the model keeps

(***************************************************************************)
(* Strings the detectors search are sequences of characters                *)
(***************************************************************************)
Includes(text, needle) ==
  \E i \in 1..(Len(text) - Len(needle) + 1) :
     SubSeq(text, i, i + Len(needle) - 1) = needle

STR_sqlmap == <<"s", "q", "l", "m", "a", "p">>
STR_nmap == <<"n", "m", "a", "p">>
STR_union_select == <<"u", "n", "i", "o", "n", " ", "s", "e", "l", "e", "c", "t">>
STR_script == <<"<", "s", "c", "r", "i", "p", "t">>
STR_browser == <<"M", "o", "z">>
STR_scanner == <<"s", "q", "l", "m", "a", "p", "/", "1">>
STR_sqli == <<"1", " ", "u", "n", "i", "o", "n", " ", "s", "e", "l", "e", "c", "t">>

\* The request contexts callers pass in: name -> {ip, userAgent, body}.
\* ip "" stands for a context without ip (context.ip || 'unknown').
ContextOf(c) ==
  CASE c = "browser" -> [ip |-> "1.2.3.4", userAgent |-> STR_browser, body |-> <<>>]
    [] c = "scanner" -> [ip |-> "5.6.7.8", userAgent |-> STR_scanner, body |-> <<>>]
    [] c = "sqli"    -> [ip |-> "1.2.3.4", userAgent |-> STR_browser, body |-> STR_sqli]
    [] c = "anon"    -> [ip |-> "", userAgent |-> <<>>, body |-> <<>>]

Contexts == {"browser", "scanner", "sqli"}

\* Plaintexts, with their length in bytes and whether JSON.parse accepts them.
Plaintexts == {"hello-world", "{\"a\":1}"}
\* An argument that is not a string (encrypt(undefined, context)).
NotAString == "<undefined>"
EncryptArguments == Plaintexts \cup {NotAString}
isString(p) == p # NotAString
ByteLength(p) == IF p = "hello-world" THEN 11 ELSE 7
JsonParses(p) == p = "{\"a\":1}"

(***************************************************************************)
(* securevibeTransform / reverseSecurevibeTransform, per byte              *)
(***************************************************************************)
RECURSIVE Xor(_, _)
Xor(a, b) ==
  IF a = 0 THEN b
  ELSE IF b = 0 THEN a
  ELSE (((a % 2) + (b % 2)) % 2) + (2 * Xor(a \div 2, b \div 2))

SignatureByte(i) == SECUREVIBE_SIGNATURE[(i % Len(SECUREVIBE_SIGNATURE)) + 1]

\* transformed[i] = ((byte ^ SIG[i % n]) + round*7 + i*13) & 0xFF
transformByte(byte, round, i) ==
  (Xor(byte, SignatureByte(i)) + (round * 7) + (i * 13)) % 256

\* reversed[i] = ((byte - round*7 - i*13) ^ SIG[i % n]) & 0xFF
reverseByte(byte, round, i) ==
  Xor((byte - (round * 7) - (i * 13)) % 256, SignatureByte(i)) % 256

BufferLengths == {IV_LENGTH + AUTH_TAG_LENGTH + ByteLength(p) : p \in Plaintexts}
Positions == 0..(CHOOSE m \in BufferLengths : \A n \in BufferLengths : n <= m) - 1

\* Reversing with round r2 undoes transforming with round r1 at position i,
\* for every byte value.
byteRoundTrip(r1, r2, i) ==
  \A b \in 0..255 : reverseByte(transformByte(b, r1, i), r2, i) = b

\* The positions at which the round encrypt and decrypt both pass round-trips.
RoundTripPositions == {i \in Positions : byteRoundTrip(LAYER2_ROUND, LAYER2_ROUND, i)}

roundTrips(r1, r2, len) ==
  IF r1 = LAYER2_ROUND /\ r2 = LAYER2_ROUND
  THEN \A i \in 0..(len - 1) : i \in RoundTripPositions
  ELSE \A i \in 0..(len - 1) : byteRoundTrip(r1, r2, i)

(***************************************************************************)
(* Buffers as terms.  Every term is a record with a field t.               *)
(***************************************************************************)
NoValue == [t |-> "none"]
Garbage == [t |-> "garbage"]

\* securevibeTransform(data, round): data is a buffer of data.len bytes;
\* dirty names the 16-byte blocks whose bytes were altered after encrypt
\* wrote them (the transform works byte by byte, so it keeps them in place).
securevibeTransform(data, round) ==
  [t |-> "xf", round |-> round, of |-> data, dirty |-> {}]

reverseSecurevibeTransform(data, round) ==
  IF data.t = "xf"
     /\ roundTrips(data.round, round, data.of.len)
  THEN [data.of EXCEPT !.dirty = data.dirty]
  ELSE Garbage

\* crypto.createCipher('aes-256-gcm', key): ciphertext and tag both bind
\* the key and the plaintext; iv1 is drawn but never given to the cipher.
aesGcmEncrypt(key, plainText) ==
  [tag |-> [key |-> key, pt |-> plainText], enc |-> [key |-> key, pt |-> plainText]]

\* Buffer.concat([iv1, authTag1, encrypted1])
combineLayer1(iv1, gcm, plainText) ==
  [t |-> "layer1", len |-> IV_LENGTH + AUTH_TAG_LENGTH + ByteLength(plainText),
   iv1 |-> iv1, tag |-> gcm.tag, enc |-> gcm.enc, dirty |-> {}]

\* decipher1.setAuthTag / update / final: authenticates under key, or throws.
\* Block 0 of combined1 is iv1, block 1 the tag, the blocks from 2 on the
\* ciphertext.
aesGcmDecrypt(key, combined1) ==
  IF combined1.t = "layer1"
     /\ combined1.dirty \subseteq {0}
     /\ combined1.tag = [key |-> key, pt |-> combined1.enc.pt]
     /\ combined1.enc.key = key
  THEN [ok |-> TRUE, plain |-> combined1.enc.pt, error |-> "-"]
  ELSE [ok |-> FALSE, plain |-> "-",
        error |-> "Unsupported state or unable to authenticate data"]

\* crypto.createCipheriv('aes-256-cbc', key, iv): PKCS7 pads to whole blocks.
aesCbcEncrypt(key, iv, data) ==
  [t |-> "cbc", key |-> key, iv |-> iv, of |-> data,
   blocks |-> (data.of.len \div CBC_BLOCK) + 1, tampered |-> {}]

\* crypto.createDecipheriv('aes-256-cbc', key, iv) on ct.  A changed byte of
\* ciphertext block k garbles plaintext block k and flips a byte of block
\* k+1; a changed IV byte flips a byte of block 0.  Under another key, or
\* with the last block altered, the padding check fails unless the bytes
\* happen to end in valid padding (padOk), and then the output is garbage.
aesCbcDecrypt(key, iv, ct, padOk) ==
  IF iv.t # "iv" THEN [ok |-> FALSE, data |-> NoValue, error |-> "Invalid IV length"]
  ELSE IF ct.t # "cbc" THEN
    IF padOk THEN [ok |-> TRUE, data |-> Garbage, error |-> "-"]
    ELSE [ok |-> FALSE, data |-> NoValue, error |-> "wrong final block length"]
  ELSE
    LET dirty == ((IF iv = ct.iv THEN {} ELSE {0})
                  \cup UNION {{k, k + 1} : k \in ct.tampered}) \cap (0..(ct.blocks - 1))
    IN  IF key # ct.key \/ (ct.blocks - 1) \in dirty THEN
          IF padOk THEN [ok |-> TRUE, data |-> Garbage, error |-> "-"]
          ELSE [ok |-> FALSE, data |-> NoValue, error |-> "bad decrypt"]
        ELSE [ok |-> TRUE, data |-> [ct.of EXCEPT !.dirty = dirty], error |-> "-"]

\* Buffer.concat([SECUREVIBE_SIGNATURE, iv2, encrypted2, Date.now().toString()])
finalData(iv2, encrypted2, t) ==
  [t |-> "final", sig |-> SECUREVIBE_SIGNATURE, iv2 |-> iv2, encrypted2 |-> encrypted2,
   ts |-> [digits |-> DATE_NOW_DIGITS, value |-> t]]

\* buffer.toString('base64') and Buffer.from(text, 'base64')
toBase64(buffer) == [t |-> "base64", of |-> buffer]
fromBase64(text) ==
  IF text.t = "base64" THEN text.of ELSE [t |-> "raw", bytes |-> text.bytes]

\* encryptedData.slice(0, SECUREVIBE_SIGNATURE.length)
leadingBytes(buffer) ==
  IF buffer.t = "final" THEN buffer.sig
  ELSE SubSeq(buffer.bytes, 1,
              IF Len(buffer.bytes) < Len(SECUREVIBE_SIGNATURE)
              THEN Len(buffer.bytes) ELSE Len(SECUREVIBE_SIGNATURE))

signatureMatchesFirstByte(buffer) ==
  leadingBytes(buffer) # <<>> /\ leadingBytes(buffer)[1] = SECUREVIBE_SIGNATURE[1]

\* signature.equals(SECUREVIBE_SIGNATURE)
signatureMatches(buffer) == leadingBytes(buffer) = SECUREVIBE_SIGNATURE

\* encryptedData.slice(20, 36): the IV handed to createDecipheriv
sliceIv2(buffer) == IF buffer.t = "final" THEN buffer.iv2 ELSE NoValue

\* encryptedData.slice(36, -13): whole only when the timestamp has 13 digits
sliceEncrypted2(buffer) ==
  IF buffer.t = "final" /\ buffer.ts.digits = TIMESTAMP_LENGTH
  THEN buffer.encrypted2 ELSE Garbage

(***************************************************************************)
(* SecureVibeEncryption: the engine.  The methods are operators on the     *)
(* engine's fields s = [masterKey, lastKeyRotation, attackPatterns,        *)
(* threatLevel, securityLog] and the time t of the call.                   *)
(***************************************************************************)
Engine ==
  [masterKey |-> masterKey, lastKeyRotation |-> lastKeyRotation,
   attackPatterns |-> attackPatterns, threatLevel |-> threatLevel,
   securityLog |-> securityLog]

LastN(seq, n) == IF Len(seq) <= n THEN seq ELSE SubSeq(seq, Len(seq) - n + 1, Len(seq))

\* this.securityLog.push(record)
logPush(log, record) ==
  [len |-> log.len + 1, tail |-> LastN(Append(log.tail, record), LogTail),
   keyRotations |-> log.keyRotations + (IF record.event = "KEY_ROTATION" THEN 1 ELSE 0)]

\* this.securityLog = this.securityLog.slice(-1000)
logSlice(log, n) ==
  IF log.len > n THEN [log EXCEPT !.len = n, !.tail = LastN(log.tail, n)] ELSE log

generateMasterKeyRepeats(s) == s.masterKey

\* A fresh 32-byte key out of crypto.randomBytes: a key not used before.
generateMasterKey(s) == s.masterKey + 1

\* masterKey[i] ^ sha256(JSON.stringify(context) + Date.now().toString())[i]
generateSessionKey(s, c, t) == [mk |-> s.masterKey, ctx |-> c, t |-> t]

rotationDueInclusive(s, t) == t - s.lastKeyRotation >= KEY_ROTATION_INTERVAL

\* now - this.lastKeyRotation > KEY_ROTATION_INTERVAL
rotationDue(s, t) == t - s.lastKeyRotation > KEY_ROTATION_INTERVAL

checkKeyRotation(s, t) ==
  IF rotationDue(s, t)
  THEN [s EXCEPT !.masterKey = generateMasterKey(s),
                 !.lastKeyRotation = t,
                 !.securityLog = logPush(@, [event |-> "KEY_ROTATION", status |-> "-",
                                             ctx |-> "-", error |-> "-",
                                             threatLevel |-> "-"])]
  ELSE s

emergencyKeyRotationKeepsKey(s, t) ==
  [s EXCEPT !.lastKeyRotation = t,
            !.securityLog = logPush(@, [event |-> "EMERGENCY_KEY_ROTATION", status |-> "-",
                                        ctx |-> "-", error |-> "-",
                                        threatLevel |-> "-"])]

\* return { success: true, message: 'Keys rotated successfully' }
emergencyKeyRotationReturn == [t |-> "status", success |-> TRUE]

emergencyKeyRotation(s, t) ==
  [s EXCEPT !.masterKey = generateMasterKey(s),
            !.lastKeyRotation = t,
            !.securityLog = logPush(@, [event |-> "EMERGENCY_KEY_ROTATION", status |-> "-",
                                        ctx |-> "-", error |-> "-",
                                        threatLevel |-> "-"])]

\* context.ip || 'unknown'
ipOf(c) == IF ContextOf(c).ip = "" THEN "unknown" ELSE ContextOf(c).ip

patternOfNew(s, ip, t) == [requestCount |-> 0, firstRequest |-> t, suspiciousPatterns |-> 0]

\* The record detectAttackPattern works on: the stored one, or a new one.
patternOf(s, ip, t) ==
  IF ip \in DOMAIN s.attackPatterns THEN s.attackPatterns[ip]
  ELSE [requestCount |-> 0, firstRequest |-> t, suspiciousPatterns |-> 0]

tooManyRequestsOnce(requestCount) == requestCount = REQUEST_CEILING + 1

tooManyRequests(requestCount) == requestCount > REQUEST_CEILING

rapidRequests(pattern, t) ==
  t - pattern.firstRequest < BURST_WINDOW /\ pattern.requestCount > BURST_CEILING

\* suspiciousIndicators.some(indicator => indicator), pattern already counted
suspiciousIndicators(c, pattern, t) ==
  \/ Includes(ContextOf(c).userAgent, STR_sqlmap) \/ Includes(ContextOf(c).userAgent, STR_nmap)
  \/ /\ ContextOf(c).body # <<>>
     /\ \/ Includes(ContextOf(c).body, STR_union_select)
        \/ Includes(ContextOf(c).body, STR_script)
  \/ tooManyRequests(pattern.requestCount)
  \/ rapidRequests(pattern, t)

levelFor(n) ==
  IF n > CRITICAL_ABOVE THEN "CRITICAL" ELSE IF n > HIGH_ABOVE THEN "HIGH" ELSE "MEDIUM"

\* detectAttackPattern(context): the engine after the call, and what it returned.
\* suspiciousPatterns is kept as its length, the only thing the code reads.
detectAttackPattern(s, c, t) ==
  LET ip == ipOf(c)
      counted == [patternOf(s, ip, t) EXCEPT !.requestCount = @ + 1]
      flagged == suspiciousIndicators(c, counted, t)
      pattern == IF flagged THEN [counted EXCEPT !.suspiciousPatterns = @ + 1] ELSE counted
  IN  [s |-> [s EXCEPT !.attackPatterns = (ip :> pattern) @@ @,
                       !.threatLevel = IF flagged THEN levelFor(pattern.suspiciousPatterns)
                                       ELSE @],
       flagged |-> flagged]

triggerSecurityResponseSilent(s, c, t) == s

triggerSecurityResponseEscalates(s, c, t) ==
  [s EXCEPT !.threatLevel = "CRITICAL",
            !.securityLog = logPush(@, [event |-> "SECURITY_INCIDENT", status |-> "-",
                                        ctx |-> c, error |-> "-",
                                        threatLevel |-> "CRITICAL"])]

triggerSecurityResponse(s, c, t) ==
  [s EXCEPT !.securityLog = logPush(@, [event |-> "SECURITY_INCIDENT", status |-> "-",
                                        ctx |-> c, error |-> "-",
                                        threatLevel |-> s.threatLevel])]

detectDecryptionAnomaly(decrypted) == ~JsonParses(decrypted)

logEncryptionEvent(s, c, status, error, t) ==
  [s EXCEPT !.securityLog =
     logSlice(logPush(@, [event |-> "ENCRYPTION", status |-> status, ctx |-> c,
                          error |-> error, threatLevel |-> s.threatLevel]), LOG_CAP)]

logDecryptionEvent(s, c, status, error, t) ==
  [s EXCEPT !.securityLog =
     logPush(@, [event |-> "DECRYPTION", status |-> status, ctx |-> c,
                 error |-> error, threatLevel |-> s.threatLevel])]

\* What a call hands back: the engine after it, whether it returned or threw,
\* the value returned, the message of the error thrown to the caller, the
\* message of the error caught inside (cause), and the stages it went through.
returned(s, value, plain, stages) ==
  [s |-> s, outcome |-> "returned", value |-> value, plain |-> plain,
   error |-> "-", cause |-> "-", stages |-> stages]

threw(s, error, cause, stages) ==
  [s |-> s, outcome |-> "threw", value |-> NoValue, plain |-> "-",
   error |-> error, cause |-> cause, stages |-> stages]

encryptCatchRethrows(s, c, cause, stages, t) ==
  threw(logEncryptionEvent(s, c, "FAILED", cause, t), cause, cause, stages)

\* catch (error) { this.logEncryptionEvent(context, 'FAILED', error.message);
\*                 throw new Error('ENCRYPTION_FAILED'); }
encryptCatch(s, c, cause, stages, t) ==
  threw(logEncryptionEvent(s, c, "FAILED", cause, t), "ENCRYPTION_FAILED", cause, stages)

\* Layers 1 to 4 of encrypt, for a context that was not flagged.
encryptLayers(s, plainText, c, sessionKey, t, iv1, iv2) ==
  LET gcm == aesGcmEncrypt(sessionKey, plainText)
      combined1 == combineLayer1(iv1, gcm, plainText)
      layer2Data == securevibeTransform(combined1, LAYER2_ROUND)
      encrypted2 == aesCbcEncrypt(s.masterKey, iv2, layer2Data)
      final == finalData(iv2, encrypted2, t)
  IN  returned(logEncryptionEvent(s, c, "SUCCESS", "-", t), toBase64(final), "-",
               {"sessionKey", "layer1", "layer2", "layer3", "layer4"})

encryptIgnoresFlag(s, plainText, c, t, iv1, iv2) ==
  LET s1 == checkKeyRotation(s, t)
      d == detectAttackPattern(s1, c, t)
  IN  encryptLayers(d.s, plainText, c, generateSessionKey(s1, c, t), t, iv1, iv2)

\* encrypt(plainText, context) called at time t; iv1, iv2 are the random IVs.
encrypt(s, plainText, c, t, iv1, iv2) ==
  LET s1 == checkKeyRotation(s, t)
      sessionKey == generateSessionKey(s1, c, t)
      d == detectAttackPattern(s1, c, t)
  IN  IF d.flagged
      THEN encryptCatch(triggerSecurityResponse(d.s, c, t), c,
                        "SECURITY_VIOLATION_DETECTED", {"sessionKey"}, t)
      ELSE IF ~isString(plainText)
      THEN \* cipher1.update(plainText, 'utf8') throws a TypeError
           encryptCatch(d.s, c, "ERR_INVALID_ARG_TYPE", {"sessionKey"}, t)
      ELSE encryptLayers(d.s, plainText, c, sessionKey, t, iv1, iv2)

decryptCatchRethrows(s, c, cause, stages, t) ==
  threw(logDecryptionEvent(s, c, "FAILED", cause, t), cause, cause, stages)

\* catch (error) { this.logDecryptionEvent(context, 'FAILED', error.message);
\*                 throw new Error('DECRYPTION_FAILED'); }
decryptCatch(s, c, cause, stages, t) ==
  threw(logDecryptionEvent(s, c, "FAILED", cause, t), "DECRYPTION_FAILED", cause, stages)

\* Layers 2 and 1 of decrypt and the anomaly check, once layer 3 gave layer2Data.
decryptInner(s, layer2Data, c, t) ==
  LET combined1 == reverseSecurevibeTransform(layer2Data, LAYER2_ROUND)
      sessionKey == generateSessionKey(s, c, t)
      l1 == aesGcmDecrypt(sessionKey, combined1)
      stages == {"layer3", "layer2", "sessionKey", "layer1"}
  IN  IF ~l1.ok THEN decryptCatch(s, c, l1.error, stages, t)
      ELSE IF detectDecryptionAnomaly(l1.plain)
      THEN decryptCatch(triggerSecurityResponse(s, c, t), c,
                        "DECRYPTION_INTEGRITY_VIOLATION", stages \cup {"anomalyCheck"}, t)
      ELSE returned(logDecryptionEvent(s, c, "SUCCESS", "-", t), NoValue, l1.plain,
                    stages \cup {"anomalyCheck"})

\* decrypt(encryptedText, context) called at time t; padOk says whether bytes
\* that were not produced under the current key happen to end in valid padding.
decrypt(s, encryptedText, c, t, padOk) ==
  LET s1 == checkKeyRotation(s, t)
      encryptedData == fromBase64(encryptedText)
  IN  IF ~signatureMatches(encryptedData)
      THEN decryptCatch(triggerSecurityResponse(s1, c, t), c, "INVALID_SIGNATURE", {}, t)
      ELSE LET l3 == aesCbcDecrypt(s1.masterKey, sliceIv2(encryptedData),
                                   sliceEncrypted2(encryptedData), padOk)
           IN  IF ~l3.ok THEN decryptCatch(s1, c, l3.error, {"layer3"}, t)
               ELSE decryptInner(s1, l3.data, c, t)

(***************************************************************************)
(* Inputs                                                                  *)
(***************************************************************************)
\* crypto.randomBytes(16): one of a few values
RandomIVs == {[t |-> "iv", id |-> 1]}

\* Texts that encrypt never produced: the empty string, random bytes, the
\* first half of the signature alone, and the signature with nothing after it.
JunkTexts == {"empty", "random", "truncated", "signatureOnly"}
junkText(j) ==
  [t |-> "text",
   bytes |-> CASE j = "empty" -> <<>>
               [] j = "random" -> <<222, 173, 190, 239>>
               [] j = "truncated" -> SubSeq(SECUREVIBE_SIGNATURE, 1, 10)
               [] j = "signatureOnly" -> SECUREVIBE_SIGNATURE]

\* One byte of the decoded ciphertext changed, in the region named.
Regions == {"signature", "iv2", "encrypted2", "timestamp"}
changeByte(text, region, k) ==
  LET b == text.of
  IN  toBase64(
        CASE region = "signature" ->
               [b EXCEPT !.sig = [@ EXCEPT ![(k % Len(@)) + 1] = (@ + 1) % 256]]
          [] region = "iv2" -> [b EXCEPT !.iv2 = [t |-> "iv", id |-> 0]]
          [] region = "encrypted2" ->
               [b EXCEPT !.encrypted2.tampered = {k % b.encrypted2.blocks}]
          [] region = "timestamp" -> [b EXCEPT !.ts.value = @ + 1])

(***************************************************************************)
(* Threat-detection middleware: detectSuspiciousActivity                   *)
(***************************************************************************)
RATE_WINDOW == 60000
RATE_LIMIT == 30
RATE_LIMIT_CODE == 429
RATE_LIMIT_RETRY_AFTER == 60

UpperCase == <<"A", "B", "C", "D", "E", "F", "G", "H", "I", "J", "K", "L", "M",
               "N", "O", "P", "Q", "R", "S", "T", "U", "V", "W", "X", "Y", "Z">>
LowerCase == <<"a", "b", "c", "d", "e", "f", "g", "h", "i", "j", "k", "l", "m",
               "n", "o", "p", "q", "r", "s", "t", "u", "v", "w", "x", "y", "z">>
toLower(ch) ==
  IF \E i \in 1..Len(UpperCase) : UpperCase[i] = ch
  THEN LowerCase[CHOOSE i \in 1..Len(UpperCase) : UpperCase[i] = ch]
  ELSE ch
lowered(text) == [i \in 1..Len(text) |-> toLower(text[i])]

STR_dotdot == <<".", ".">>
STR_union == <<"u", "n", "i", "o", "n">>
STR_select == <<"s", "e", "l", "e", "c", "t">>
STR_eval == <<"e", "v", "a", "l", "(">>
STR_base64 == <<"b", "a", "s", "e", "6", "4">>

\* /union.*select/i : "union", then any characters but a newline, then "select"
matchesUnionSelect(text) ==
  LET low == lowered(text)
  IN  \E i \in 1..Len(low), j \in 1..Len(low) :
        /\ i + Len(STR_union) <= j
        /\ j + Len(STR_select) - 1 <= Len(low)
        /\ SubSeq(low, i, i + Len(STR_union) - 1) = STR_union
        /\ SubSeq(low, j, j + Len(STR_select) - 1) = STR_select
        /\ \A k \in (i + Len(STR_union))..(j - 1) : low[k] # "\n"

\* suspiciousPatterns.some(pattern => pattern.test(text))
matchesAttackSignature(text) ==
  \/ Includes(text, STR_dotdot)
  \/ Includes(lowered(text), STR_script)
  \/ matchesUnionSelect(text)
  \/ Includes(lowered(text), STR_eval)
  \/ Includes(lowered(text), STR_base64)

STR_url == <<"/", "a", "p", "i", "/", "a", "u", "t", "h">>
STR_emptyObject == <<"{", "}">>
STR_unionBody == <<"{", "\"", "q", "\"", ":", "\"", "'", " ", "U", "N", "I", "O", "N", " ",
                   "S", "E", "L", "E", "C", "T", "\"", "}">>

\* The requests of the model: name -> {ip, path, url, JSON of body, JSON of query}
RequestOf(r) ==
  CASE r = "login" -> [ip |-> "203.0.113.5", path |-> "/api/auth/magic-link",
                       url |-> STR_url, body |-> STR_emptyObject, query |-> STR_emptyObject]
    [] r = "inject" -> [ip |-> "203.0.113.5", path |-> "/api/auth/magic-link",
                        url |-> STR_url, body |-> STR_unionBody, query |-> STR_emptyObject]
    [] r = "other" -> [ip |-> "198.51.100.7", path |-> "/api/auth/magic-link",
                       url |-> STR_url, body |-> STR_emptyObject, query |-> STR_emptyObject]

Requests == {"login", "inject", "other"}

\* const key = `${ip}-${path}`
trackerKey(r) == <<RequestOf(r).ip, RequestOf(r).path>>
TrackerKeys == {trackerKey(r) : r \in Requests}

\* The requests that match a signature in their URL, body or query.
SuspiciousRequests ==
  {r \in Requests :
     \/ matchesAttackSignature(RequestOf(r).url)
     \/ matchesAttackSignature(RequestOf(r).body)
     \/ matchesAttackSignature(RequestOf(r).query)}

isSuspiciousNever(r) == FALSE

isSuspicious(r) == r \in SuspiciousRequests

windowElapsedInclusive(data, t) == t - data.firstRequest >= RATE_WINDOW

\* now - data.firstRequest > window
windowElapsed(data, t) == t - data.firstRequest > RATE_WINDOW

overLimitInclusive(count) == count >= RATE_LIMIT

overLimitLate(count) == count > RATE_LIMIT + 1

\* data.count > limit
overLimit(count) == count > RATE_LIMIT

\* ErrorFactory.rateLimitExceeded(...).toResponse(), sent with res.status(error.code)
rateLimitExceeded ==
  [kind |-> "RATE_LIMIT_EXCEEDED", status |-> RATE_LIMIT_CODE, category |-> "RATE_LIMIT",
   retryAfter |-> RATE_LIMIT_RETRY_AFTER]

noError == [kind |-> "-", status |-> 0, category |-> "-", retryAfter |-> 0]

\* detectSuspiciousActivity(req, res, next) at time t: the tracker after the
\* call, whether next() was called, the error answered, and the annotation.
detectSuspiciousActivity(tracker, r, t) ==
  LET key == trackerKey(r)
      suspicious == isSuspicious(r)
  IN  IF key \notin DOMAIN tracker
      THEN [tracker |-> (key :> [count |-> 1, firstRequest |-> t]) @@ tracker,
            next |-> TRUE, error |-> noError, suspiciousActivity |-> suspicious]
      ELSE IF windowElapsed(tracker[key], t)
      THEN [tracker |-> [tracker EXCEPT ![key] = [count |-> 1, firstRequest |-> t]],
            next |-> TRUE, error |-> noError, suspiciousActivity |-> suspicious]
      ELSE LET counted == [tracker EXCEPT ![key].count = @ + 1]
           IN  IF overLimit(counted[key].count)
               THEN [tracker |-> counted, next |-> FALSE, error |-> rateLimitExceeded,
                     suspiciousActivity |-> suspicious]
               ELSE [tracker |-> counted, next |-> TRUE, error |-> noError,
                     suspiciousActivity |-> suspicious]

(***************************************************************************)
(* The User collection, as the middleware reads and writes it              *)
(***************************************************************************)
UserIds == {"alice"}
apiKeyOf(u) == <<"key", u>>
ApiKeys == {apiKeyOf(u) : u \in UserIds}

NoUser == "-"

\* A header the request does not carry.
NoHeader == <<>>

\* User.findOne({ apiKey }): the id of the user holding the key, or none.
findOne(table, apiKey) ==
  IF \E u \in DOMAIN table : table[u].apiKey = apiKey
  THEN CHOOSE u \in DOMAIN table : table[u].apiKey = apiKey
  ELSE NoUser

\* What the lookup of a request can end in: an answer from the collection,
\* or a rejected promise.
Lookups == {"answers", "rejects"}

\* The invocations of userRateLimit that can be suspended at the lookup.
PendingKinds == {<<apiKey, lookup>> : apiKey \in ApiKeys \cup {<<"key", "mallory">>},
                                      lookup \in Lookups}

(***************************************************************************)
(* Threat-detection middleware: userRateLimit                              *)
(***************************************************************************)
FREE_REQUESTS == 100
PAID_REQUESTS == 1000
USER_WINDOW == 15 * 60 * 1000
SUBSCRIPTION_REQUIRED_CODE == 402
USAGE_LIMIT_CODE == 429

\* limits.free, limits.paid
limitsOf(isPaid) ==
  IF isPaid THEN [requests |-> PAID_REQUESTS, windowMs |-> USER_WINDOW]
  ELSE [requests |-> FREE_REQUESTS, windowMs |-> USER_WINDOW]

\* ErrorFactory.subscriptionRequired(...).toResponse(), sent with res.status(error.code);
\* the error has an upgradeUrl and no retryAfter
subscriptionRequired ==
  [kind |-> "SUBSCRIPTION_REQUIRED", status |-> SUBSCRIPTION_REQUIRED_CODE,
   category |-> "SUBSCRIPTION", retryAfter |-> 0]

\* ErrorFactory.usageLimitExceeded(...).toResponse(): an upgradeUrl, no retryAfter
usageLimitExceeded ==
  [kind |-> "USAGE_LIMIT_EXCEEDED", status |-> USAGE_LIMIT_CODE,
   category |-> "USAGE", retryAfter |-> 0]

\* const key = `user_${user._id}`
userKey(u) == <<"user", u>>

userWindowElapsedAlways(data, t) == TRUE

userWindowElapsed(data, t) == t - data.firstRequest > data.windowMs

userOverLimit(data) == data.count > data.limit

failedClosed(tracker) == [tracker |-> tracker, next |-> FALSE, error |-> usageLimitExceeded]

\* next() with nothing answered and no counter touched
passedOn(tracker) == [tracker |-> tracker, next |-> TRUE, error |-> noError]

\* The part of userRateLimit that follows `await User.findOne`, run at time t
\* with the document u the lookup answered (NoUser for null).  No await
\* follows the lookup, so this part runs to its end without interruption.
userRateLimitResume(tracker, table, u, t) ==
  LET pass == passedOn(tracker)
      key == userKey(u)
      userLimit == limitsOf(table[u].isPaid)
  IN  IF u = NoUser THEN pass
      ELSE IF key \notin DOMAIN tracker
      THEN [pass EXCEPT !.tracker =
              (key :> [count |-> 1, firstRequest |-> t, limit |-> userLimit.requests,
                       windowMs |-> userLimit.windowMs]) @@ tracker]
      ELSE IF userWindowElapsed(tracker[key], t)
      THEN [pass EXCEPT !.tracker =
              [tracker EXCEPT ![key].count = 1, ![key].firstRequest = t]]
      ELSE LET counted == [tracker EXCEPT ![key].count = @ + 1]
           IN  IF userOverLimit(counted[key])
               THEN [tracker |-> counted, next |-> FALSE,
                     error |-> IF table[u].isPaid THEN usageLimitExceeded
                               ELSE subscriptionRequired]
               ELSE [pass EXCEPT !.tracker = counted]

\* userRateLimit(req, res, next) at time t for a request carrying apiKey (NoHeader
\* when the header is absent), the lookup answering at once: the tracker after
\* the call, whether next() was called, and the error answered.
userRateLimit(tracker, table, apiKey, lookup, t) ==
  IF apiKey = NoHeader THEN passedOn(tracker)
  ELSE IF lookup = "rejects" THEN passedOn(tracker)
  ELSE userRateLimitResume(tracker, table, findOne(table, apiKey), t)

(***************************************************************************)
(* Threat-detection middleware: verifyRequestSignature                     *)
(***************************************************************************)
FRESHNESS_WINDOW == 5 * 60 * 1000
UNAUTHORIZED_CODE == 401

Digits == <<"0", "1", "2", "3", "4", "5", "6", "7", "8", "9">>
isDigit(ch) == \E d \in 1..Len(Digits) : Digits[d] = ch
digitValue(ch) == (CHOOSE d \in 1..Len(Digits) : Digits[d] = ch) - 1

\* Date.now().toString() on the client: the decimal digits of n
RECURSIVE toString(_)
toString(n) ==
  IF n < 10 THEN <<Digits[n + 1]>> ELSE Append(toString(n \div 10), Digits[(n % 10) + 1])

RECURSIVE parseDigits(_, _, _)
parseDigits(text, i, acc) ==
  IF i > Len(text) \/ ~isDigit(text[i]) THEN acc
  ELSE parseDigits(text, i + 1, (acc * 10) + digitValue(text[i]))

\* parseInt(timestamp): the number written by the leading digits, NaN when
\* the text does not start with a digit
parseInt(text) ==
  IF text = <<>> \/ ~isDigit(text[1]) THEN [nan |-> TRUE, value |-> 0]
  ELSE [nan |-> FALSE, value |-> parseDigits(text, 1, 0)]

abs(n) == IF n < 0 THEN 0 - n ELSE n

\* Math.abs(now - requestTime) > 5 * 60 * 1000, false when requestTime is NaN
timestampExpired(requestTime, t) ==
  ~requestTime.nan /\ abs(t - requestTime.value) > FRESHNESS_WINDOW

\* crypto.createHmac('sha256', key).update(payload).digest('hex')
hmacHex(key, payload) == <<"hmac", key, payload>>

\* timestamp + JSON.stringify(req.body || {})
signedPayload(timestamp, body) == timestamp \o body

signatureDiffersNever(signature, expectedSignature) == FALSE

\* signature !== expectedSignature
signatureDiffers(signature, expectedSignature) == signature # expectedSignature

signatureMissing(req) == req.signature = NoHeader

\* !signature || !timestamp || !apiKey: a header that is absent or empty
headersMissing(req) ==
  req.signature = NoHeader \/ req.timestamp = NoHeader \/ req.apiKey = NoHeader

answered(table, status, message) ==
  [users |-> table, next |-> FALSE, nextError |-> FALSE, status |-> status,
   message |-> message, verifiedUser |-> NoUser, stages |-> {}]

\* verifyRequestSignature(req, res, next) at time t.  req holds the three
\* headers (NoHeader when absent) and the JSON text of the body; lookup says
\* whether User.findOne answers or rejects.  The result: the User collection
\* after the call (user.securityLogs.push, user.save()), whether next() was
\* called and whether with an error, the status and message answered,
\* req.verifiedUser, and the checks that ran.
verifyRequestSignature(table, req, lookup, t) ==
  LET passed == [users |-> table, next |-> TRUE, nextError |-> FALSE, status |-> 0,
                 message |-> "-", verifiedUser |-> NoUser, stages |-> {}]
      u == findOne(table, req.apiKey)
      expectedSignature == hmacHex(table[u].apiKey, signedPayload(req.timestamp, req.body))
  IN  IF headersMissing(req)
      THEN passed
      ELSE IF timestampExpired(parseInt(req.timestamp), t)
      THEN [answered(table, UNAUTHORIZED_CODE, "Request timestamp expired")
              EXCEPT !.stages = {"freshness"}]
      ELSE IF lookup = "rejects"
      THEN [passed EXCEPT !.nextError = TRUE, !.stages = {"freshness", "lookup"}]
      ELSE IF u = NoUser
      THEN [answered(table, UNAUTHORIZED_CODE, "Invalid API key")
              EXCEPT !.stages = {"freshness", "lookup"}]
      ELSE IF signatureDiffers(req.signature, expectedSignature)
      THEN [answered([table EXCEPT ![u].securityLogs = Append(@, "INVALID_SIGNATURE")],
                     UNAUTHORIZED_CODE, "Invalid request signature")
              EXCEPT !.stages = {"freshness", "lookup", "hmac"}]
      ELSE [passed EXCEPT !.verifiedUser = u, !.stages = {"freshness", "lookup", "hmac"}]

(***************************************************************************)
(* Magic-link routes: POST /magic-link and GET /magic-link/:id             *)
(***************************************************************************)
MAGIC_LINK_TTL == 15 * 60 * 1000
OK_CODE == 200
REDIRECT_CODE == 302
BAD_REQUEST_CODE == 400
SERVER_ERROR_CODE == 500

\* The bodies of POST /magic-link: with email and clientId, without an email,
\* with an email the format check refuses.
LinkBodies == {"valid", "noEmail", "badEmail"}

\* req.body.redirectUri: absent, a URL, a text that is no URL.
RedirectUris == {"absent", "url", "notUrl"}

\* What follows the storing of the link: the mail is sent, the transport
\* fails with EAUTH or ECONNECTION, or something else is thrown.
MailOutcomes == {"sent", "EAUTH", "throws"}

\* redirectUri || 'http://localhost:3000'
redirectUriOf(redirectUri) == IF redirectUri = "absent" THEN "url" ELSE redirectUri

\* new URL(text) throws a TypeError on a text that is no URL
urlParses(redirectUri) == redirectUri # "notUrl"

\* crypto.randomBytes(16).toString('hex'): an id not used before
freshLinkId(log) == Cardinality(DOMAIN log) + 1

\* map.delete(k)
without(map, k) == [x \in (DOMAIN map) \ {k} |-> map[x]]

replied(links, status) ==
  [links |-> links, status |-> status, nextError |-> FALSE, tokens |-> FALSE]

\* POST /magic-link at time t, the link stored under id: the links after the
\* call, the status answered, whether next(error) was called.
postMagicLink(links, id, body, redirectUri, mail, t) ==
  LET stored == (id :> [expires |-> t + MAGIC_LINK_TTL, used |-> FALSE,
                        redirectUri |-> redirectUriOf(redirectUri)]) @@ links
  IN  IF body # "valid" THEN replied(links, BAD_REQUEST_CODE)
      ELSE IF mail = "sent" THEN replied(stored, OK_CODE)
      ELSE IF mail = "EAUTH" THEN replied(stored, SERVER_ERROR_CODE)
      ELSE [replied(stored, 0) EXCEPT !.nextError = TRUE]

linkExpiredNever(link, t) == FALSE

\* Date.now() > magicLink.expires
linkExpired(link, t) == t > link.expires

\* GET /magic-link/:id at time t: the links after the call, the status
\* answered, whether generateToken and generateRefreshToken made tokens, and
\* whether next(error) was called.  The secrets jwt.sign needs are checked
\* when the server starts, so the two calls return.
getMagicLink(links, id, t) ==
  IF id \notin DOMAIN links THEN replied(links, BAD_REQUEST_CODE)
  ELSE IF links[id].used \/ linkExpired(links[id], t)
  THEN replied(without(links, id), BAD_REQUEST_CODE)
  ELSE LET marked == [links EXCEPT ![id].used = TRUE]
           cleaned == without(marked, id)
       IN  IF urlParses(links[id].redirectUri)
           THEN [replied(cleaned, REDIRECT_CODE) EXCEPT !.tokens = TRUE]
           ELSE [replied(cleaned, 0) EXCEPT !.tokens = TRUE, !.nextError = TRUE]

\* The callback of setInterval: every link past its expiry is deleted.
cleanupMagicLinks(links, t) ==
  [x \in {y \in DOMAIN links : ~(t > links[y].expires)} |-> links[x]]

(***************************************************************************)
(* SecureVibeError and errorMiddleware                                     *)
(***************************************************************************)
NodeEnvs == {"production", "development", "unset"}

\* ERRORS[errorType], "-" and 0 for the fields an entry does not have
ERRORS(errorType) ==
  CASE errorType = "SUBSCRIPTION_REQUIRED" ->
         [code |-> 402, message |-> "Subscription required",
          details |-> "This feature requires an active subscription. Please upgrade your plan.",
          category |-> "SUBSCRIPTION", upgradeUrl |-> "/pricing", retryAfter |-> 0]
    [] errorType = "INVALID_INPUT" ->
         [code |-> 400, message |-> "Invalid input provided",
          details |-> "Please check your input and try again.",
          category |-> "VALIDATION", upgradeUrl |-> "-", retryAfter |-> 0]
    [] errorType = "INTERNAL_ERROR" ->
         [code |-> 500, message |-> "Internal server error",
          details |-> "An unexpected error occurred. Our team has been notified.",
          category |-> "SERVER_ERROR", upgradeUrl |-> "-", retryAfter |-> 0]
    [] errorType = "DATABASE_ERROR" ->
         [code |-> 503, message |-> "Database temporarily unavailable",
          details |-> "Unable to connect to database. Please try again.",
          category |-> "SERVER_ERROR", upgradeUrl |-> "-", retryAfter |-> 0]
    [] errorType = "RATE_LIMIT_EXCEEDED" ->
         [code |-> 429, message |-> "Rate limit exceeded",
          details |-> "Too many requests. Please slow down and try again later.",
          category |-> "RATE_LIMIT", upgradeUrl |-> "-", retryAfter |-> 60]

ErrorTypes ==
  {"SUBSCRIPTION_REQUIRED", "INVALID_INPUT", "INTERNAL_ERROR", "DATABASE_ERROR",
   "RATE_LIMIT_EXCEEDED"}

\* The details a caller hands to the constructor: none, or a text of its own.
CustomDetails == {"-", "column users.password_hash does not exist",
                  "redis://10.0.3.7:6379 refused the connection"}

\* new SecureVibeError(errorType, customDetails)
SecureVibeError(errorType, customDetails) ==
  [class |-> "SecureVibeError", code |-> ERRORS(errorType).code,
   message |-> ERRORS(errorType).message, category |-> ERRORS(errorType).category,
   details |-> IF customDetails # "-" THEN customDetails ELSE ERRORS(errorType).details,
   upgradeUrl |-> ERRORS(errorType).upgradeUrl, retryAfter |-> ERRORS(errorType).retryAfter,
   stack |-> "SecureVibeError: at new SecureVibeError (errorHandler.js)"]

\* An exception of another class: new Error(message), new TypeError(message)
PlainMessages == {"connect ECONNREFUSED 10.0.3.7:27017", "Invalid URL"}
PlainError(message) ==
  [class |-> "Error", code |-> 0, message |-> message, category |-> "-", details |-> "-",
   upgradeUrl |-> "-", retryAfter |-> 0, stack |-> "Error: at Object.<anonymous> (auth.js)"]

Errors ==
  {SecureVibeError(e, d) : e \in ErrorTypes, d \in CustomDetails}
    \cup {PlainError(m) : m \in PlainMessages}

\* req.headers['x-debug']: absent, 'true', another text
DebugHeaders == {"<absent>", "true", "1"}

\* err.toResponse(includeDetails) under NODE_ENV env: the error object of the
\* body, "-" for a field it does not have
toResponse(err, includeDetails, env) ==
  [code |-> err.code, message |-> err.message, category |-> err.category,
   upgradeUrl |-> err.upgradeUrl, retryAfter |-> err.retryAfter,
   details |-> IF includeDetails \/ env # "production" THEN err.details ELSE "-",
   stack |-> "-"]

\* process.env.NODE_ENV !== 'production' || req.headers['x-debug'] === 'true'
includeDetails(xDebug, env) == env # "production" \/ xDebug = "true"

\* errorMiddleware(err, req, res, next) under NODE_ENV env: the status sent
\* and the error object of the body
errorMiddleware(err, xDebug, env) ==
  IF err.class = "SecureVibeError"
  THEN [status |-> err.code, body |-> toResponse(err, includeDetails(xDebug, env), env)]
  ELSE [status |-> SERVER_ERROR_CODE,
        body |-> [code |-> SERVER_ERROR_CODE, message |-> "An unexpected error occurred",
                  category |-> "SERVER_ERROR", upgradeUrl |-> "-", retryAfter |-> 0,
                  details |-> IF env # "production" THEN err.message ELSE "-",
                  stack |-> IF env # "production" THEN err.stack ELSE "-"]]

(***************************************************************************)
(* State machine                                                           *)
(***************************************************************************)
EmptyMap == [x \in {} |-> 0]

NoCall ==
  [op |-> "-", ctx |-> "-", input |-> "-", outcome |-> "-", value |-> NoValue,
   plain |-> "-", error |-> "-", cause |-> "-", stages |-> {}, flagged |-> FALSE,
   appended |-> <<>>, pushed |-> 0, keyRotations |-> 0, rotations |-> 0, t |-> 0]

NoResponse ==
  [req |-> "-", next |-> FALSE, error |-> noError, suspiciousActivity |-> FALSE, t |-> 0,
   countBefore |-> 0]

NoRequest == [signature |-> NoHeader, timestamp |-> NoHeader, apiKey |-> NoHeader, body |-> <<>>]

noAnswer ==
  [route |-> "-", id |-> 0, status |-> 0, nextError |-> FALSE, tokens |-> FALSE, t |-> 0]

noRender ==
  [err |-> PlainError("-"), xDebug |-> "<absent>", status |-> 0,
   body |-> [code |-> 0, message |-> "-", category |-> "-", upgradeUrl |-> "-",
             retryAfter |-> 0, details |-> "-", stack |-> "-"]]

NoVerdict ==
  [mw |-> "-", req |-> NoRequest, lookup |-> "-", user |-> NoUser, isPaid |-> FALSE,
   count |-> 0, next |-> FALSE, nextError |-> FALSE, status |-> 0, error |-> noError,
   message |-> "-", verifiedUser |-> NoUser, stages |-> {}, t |-> 0]

\* new SecureVibeEncryption(): a first master key, no records, level LOW; no
\* counters; the users on the base tier with empty security logs; no
\* invocation suspended, no magic link, nothing answered.
Started ==
  /\ now = 0
  /\ masterKey = 1
  /\ lastKeyRotation = 0
  /\ attackPatterns = EmptyMap
  /\ threatLevel = "LOW"
  /\ securityLog = [len |-> 0, tail |-> <<>>, keyRotations |-> 0]
  /\ wire = [text |-> NoValue, changed |-> "-"]
  /\ issued = [plainText |-> "-", ctx |-> "-", t |-> 0, rotations |-> 0]
  /\ rotations = 0
  /\ result = NoCall
  /\ requestTracker = EmptyMap
  /\ response = NoResponse
  /\ accepted = [k \in TrackerKeys |-> <<>>]
  /\ users = [u \in UserIds |-> [apiKey |-> apiKeyOf(u), isPaid |-> FALSE,
                                 securityLogs |-> <<>>]]
  /\ userRequestTracker = EmptyMap
  /\ verdict = NoVerdict
  /\ pending = [k \in PendingKinds |-> 0]
  /\ served = EmptyMap
  /\ magicLinks = EmptyMap
  /\ cleanupInitialized = FALSE
  /\ linkLog = EmptyMap
  /\ answer = noAnswer
  /\ rendered = noRender

\* The server as deployed: NODE_ENV=production.
Init == Started /\ nodeEnv = "production"

\* The events a call appended to the log, oldest first.
appendedBy(before, after) ==
  LET n == after.len - before.len
      m == IF n > Len(after.tail) THEN Len(after.tail) ELSE IF n < 0 THEN 0 ELSE n
  IN  [i \in 1..m |-> after.tail[Len(after.tail) - m + i].event]

SetEngine(s) ==
  /\ masterKey' = s.masterKey
  /\ lastKeyRotation' = s.lastKeyRotation
  /\ attackPatterns' = s.attackPatterns
  /\ threatLevel' = s.threatLevel
  /\ securityLog' = s.securityLog

\* The rotations done once a call made at this moment has run checkKeyRotation.
rotationsAfterCheck == rotations + (IF rotationDue(Engine, now) THEN 1 ELSE 0)

callRecord(op, c, input, r, flagged) ==
  [op |-> op, ctx |-> c, input |-> input, outcome |-> r.outcome, value |-> r.value,
   plain |-> r.plain, error |-> r.error, cause |-> r.cause, stages |-> r.stages,
   flagged |-> flagged, appended |-> appendedBy(securityLog, r.s.securityLog),
   pushed |-> r.s.securityLog.len - securityLog.len,
   keyRotations |-> r.s.securityLog.keyRotations - securityLog.keyRotations,
   rotations |-> rotationsAfterCheck, t |-> now]

\* Time passes: the clock moves to a later instant.
Advance(instants) ==
  /\ \E t \in instants : t > now /\ now' = t
  /\ UNCHANGED <<engineVars, trackerVars, userVars, asyncVars, webVars>>

\* A caller encrypts plaintext p under context c.
EncryptCall(p, c, iv1, iv2) ==
  LET r == encrypt(Engine, p, c, now, iv1, iv2)
  IN  /\ SetEngine(r.s)
      /\ result' = callRecord("encrypt", c, p, r,
                              detectAttackPattern(checkKeyRotation(Engine, now), c, now).flagged)
      /\ wire' = IF r.outcome = "returned" THEN [text |-> r.value, changed |-> "-"] ELSE wire
      /\ issued' = IF r.outcome = "returned"
                   THEN [plainText |-> p, ctx |-> c, t |-> now,
                         rotations |-> rotationsAfterCheck]
                   ELSE issued
      /\ rotations' = rotationsAfterCheck
      /\ UNCHANGED <<now, trackerVars, userVars, asyncVars, webVars>>

\* A caller decrypts the ciphertext it holds, under context c.
DecryptWire(c, padOk) ==
  /\ wire.text.t = "base64"
  /\ LET r == decrypt(Engine, wire.text, c, now, padOk)
     IN  /\ SetEngine(r.s)
         /\ result' = callRecord("decrypt", c, IF wire.changed = "-" THEN "issued" ELSE wire.changed,
                                 r, FALSE)
  /\ rotations' = rotationsAfterCheck
  /\ UNCHANGED <<now, wire, issued, trackerVars, userVars, asyncVars, webVars>>

\* A caller decrypts a text that encrypt never produced.
DecryptJunk(j, c, padOk) ==
  /\ LET r == decrypt(Engine, junkText(j), c, now, padOk)
     IN  /\ SetEngine(r.s)
         /\ result' = callRecord("decrypt", c, j, r, FALSE)
  /\ rotations' = rotationsAfterCheck
  /\ UNCHANGED <<now, wire, issued, trackerVars, userVars, asyncVars, webVars>>

\* One byte of the ciphertext in the caller's hands is changed.
Tamper(region, k) ==
  /\ wire.text.t = "base64"
  /\ wire.changed = "-"
  /\ wire' = [text |-> changeByte(wire.text, region, k), changed |-> region]
  /\ UNCHANGED <<now, masterKey, lastKeyRotation, attackPatterns, threatLevel,
                 securityLog, issued, rotations, result, trackerVars, userVars, asyncVars, webVars>>

\* An administrator calls emergencyKeyRotation().
EmergencyKeyRotation ==
  /\ SetEngine(emergencyKeyRotation(Engine, now))
  /\ rotations' = rotations + 1
  /\ result' = [NoCall EXCEPT !.op = "emergencyKeyRotation", !.outcome = "returned",
                              !.value = emergencyKeyRotationReturn,
                              !.appended = <<"EMERGENCY_KEY_ROTATION">>, !.pushed = 1,
                              !.rotations = rotations + 1, !.t = now]
  /\ UNCHANGED <<now, wire, issued, trackerVars, userVars, asyncVars, webVars>>

\* The times in a history that are no more than one window before t.
recent(times, t) == SelectSeq(times, LAMBDA x : x >= t - RATE_WINDOW)

\* Request r passes through detectSuspiciousActivity.
Request(r) ==
  LET d == detectSuspiciousActivity(requestTracker, r, now)
  IN  /\ requestTracker' = d.tracker
      /\ response' = [req |-> r, next |-> d.next, error |-> d.error,
                      suspiciousActivity |-> d.suspiciousActivity, t |-> now,
                      countBefore |-> IF trackerKey(r) \in DOMAIN requestTracker
                                      THEN requestTracker[trackerKey(r)].count ELSE 0]
      /\ accepted' = IF d.next
                     THEN [accepted EXCEPT ![trackerKey(r)] = Append(recent(@, now), now)]
                     ELSE accepted
      /\ UNCHANGED <<now, engineVars, userVars, asyncVars, webVars>>

\* What the caller of userRateLimit saw: d is what the middleware did.
rateVerdict(apiKey, lookup, d) ==
  LET u == IF apiKey = NoHeader \/ lookup = "rejects" THEN NoUser ELSE findOne(users, apiKey)
  IN  [NoVerdict EXCEPT
         !.mw = "userRateLimit", !.req.apiKey = apiKey, !.lookup = lookup,
         !.user = u,
         !.isPaid = IF u = NoUser THEN FALSE ELSE users[u].isPaid,
         !.count = IF u = NoUser THEN 0 ELSE d.tracker[userKey(u)].count,
         !.next = d.next, !.status = d.error.status, !.error = d.error,
         !.t = now]

\* One more invocation completed for a counter key at time t: it joins the
\* invocations of the running window, or is the first of a new window when
\* the first of the running one lies more than a window back.
tally(log, key, t, rejected) ==
  IF key \in DOMAIN log /\ t - log[key].since <= USER_WINDOW
  THEN [log EXCEPT ![key].n = @ + 1, ![key].rejected = @ + (IF rejected THEN 1 ELSE 0)]
  ELSE (key :> [since |-> t, n |-> 1, rejected |-> IF rejected THEN 1 ELSE 0]) @@ log

servedAfter(apiKey, lookup, d) ==
  LET v == rateVerdict(apiKey, lookup, d)
  IN  IF v.user = NoUser THEN served ELSE tally(served, userKey(v.user), now, ~d.next)

\* A request carrying apiKey passes through userRateLimit, the lookup
\* answering before any other request arrives.
UserRequest(apiKey, lookup) ==
  LET d == userRateLimit(userRequestTracker, users, apiKey, lookup, now)
  IN  /\ userRequestTracker' = d.tracker
      /\ verdict' = rateVerdict(apiKey, lookup, d)
      /\ served' = servedAfter(apiKey, lookup, d)
      /\ UNCHANGED <<now, engineVars, trackerVars, users, pending, webVars>>

\* userRateLimit is entered for a request carrying apiKey: without the header
\* it calls next() at once, with it it starts User.findOne and suspends.
UserRateLimitEnter(apiKey, lookup) ==
  /\ IF apiKey = NoHeader
     THEN /\ verdict' = rateVerdict(apiKey, lookup, passedOn(userRequestTracker))
          /\ pending' = pending
     ELSE /\ pending' = [pending EXCEPT ![<<apiKey, lookup>>] = @ + 1]
          /\ verdict' = verdict
  /\ UNCHANGED <<now, engineVars, trackerVars, users, userRequestTracker, served, webVars>>

\* The lookup of one suspended invocation settles and the invocation runs to
\* its end: into the catch when the promise was rejected, else with the
\* document the collection holds.
UserRateLimitResume(apiKey, lookup) ==
  /\ pending[<<apiKey, lookup>>] > 0
  /\ pending' = [pending EXCEPT ![<<apiKey, lookup>>] = @ - 1]
  /\ LET d == IF lookup = "rejects" THEN passedOn(userRequestTracker)
              ELSE userRateLimitResume(userRequestTracker, users,
                                       findOne(users, apiKey), now)
     IN  /\ userRequestTracker' = d.tracker
         /\ verdict' = rateVerdict(apiKey, lookup, d)
         /\ served' = servedAfter(apiKey, lookup, d)
  /\ UNCHANGED <<now, engineVars, trackerVars, users, webVars>>

\* PUT /api/admin/users/:id with {isPaid}: an administrator moves a user to
\* the other tier.
SetTier(u, isPaid) ==
  /\ users[u].isPaid # isPaid
  /\ users' = [users EXCEPT ![u].isPaid = isPaid]
  /\ UNCHANGED <<now, engineVars, trackerVars, userRequestTracker, verdict, asyncVars, webVars>>

\* A request passes through verifyRequestSignature.
SignedRequest(req, lookup) ==
  LET d == verifyRequestSignature(users, req, lookup, now)
  IN  /\ users' = d.users
      /\ verdict' = [NoVerdict EXCEPT
                       !.mw = "verifyRequestSignature", !.req = req, !.lookup = lookup,
                       !.user = IF "lookup" \in d.stages /\ lookup = "answers"
                                THEN findOne(users, req.apiKey) ELSE NoUser,
                       !.next = d.next, !.nextError = d.nextError, !.status = d.status,
                       !.message = d.message, !.verifiedUser = d.verifiedUser,
                       !.stages = d.stages, !.t = now]
      /\ UNCHANGED <<now, engineVars, trackerVars, userRequestTracker, asyncVars, webVars>>

\* POST /magic-link with the body, redirectUri and mail outcome given.
PostMagicLink(body, redirectUri, mail) ==
  LET id == freshLinkId(linkLog)
      d == postMagicLink(magicLinks, id, body, redirectUri, mail, now)
  IN  /\ magicLinks' = d.links
      /\ cleanupInitialized' = (cleanupInitialized \/ body = "valid")
      /\ linkLog' = IF body = "valid"
                    THEN (id :> [created |-> now, issuedAt |-> <<>>]) @@ linkLog
                    ELSE linkLog
      /\ answer' = [route |-> "POST", id |-> IF body = "valid" THEN id ELSE 0,
                    status |-> d.status, nextError |-> d.nextError, tokens |-> FALSE,
                    t |-> now]
      /\ UNCHANGED <<now, engineVars, trackerVars, userVars, asyncVars, nodeEnv, rendered>>

\* GET /magic-link/:id
GetMagicLink(id) ==
  LET d == getMagicLink(magicLinks, id, now)
  IN  /\ magicLinks' = d.links
      /\ linkLog' = IF d.tokens THEN [linkLog EXCEPT ![id].issuedAt = Append(@, now)]
                    ELSE linkLog
      /\ answer' = [route |-> "GET", id |-> id, status |-> d.status,
                    nextError |-> d.nextError, tokens |-> d.tokens, t |-> now]
      /\ UNCHANGED <<now, engineVars, trackerVars, userVars, asyncVars, cleanupInitialized,
                     nodeEnv, rendered>>

\* The cleanup timer set by the first stored link fires.
CleanupMagicLinks ==
  /\ cleanupInitialized
  /\ magicLinks' = cleanupMagicLinks(magicLinks, now)
  /\ UNCHANGED <<now, engineVars, trackerVars, userVars, asyncVars, cleanupInitialized,
                 linkLog, answer, nodeEnv, rendered>>

\* Express hands err, raised while serving a request with the x-debug header
\* given, to errorMiddleware.
HandleError(err, xDebug) ==
  /\ rendered' = [err |-> err, xDebug |-> xDebug,
                  status |-> errorMiddleware(err, xDebug, nodeEnv).status,
                  body |-> errorMiddleware(err, xDebug, nodeEnv).body]
  /\ UNCHANGED <<now, engineVars, trackerVars, userVars, asyncVars, magicLinks,
                 cleanupInitialized, linkLog, answer, nodeEnv>>


(***************************************************************************)
(* Spec: the engine, from construction, until its log holds MaxLog records *)
(***************************************************************************)
MaxLog == 3
EngineInstants == {1, KEY_ROTATION_INTERVAL, KEY_ROTATION_INTERVAL + 1}

Next ==
  \/ Advance(EngineInstants)
  \/ /\ securityLog.len < MaxLog
     /\ \/ \E p \in EncryptArguments, c \in Contexts, iv1 \in RandomIVs, iv2 \in RandomIVs :
             EncryptCall(p, c, iv1, iv2)
        \/ \E c \in Contexts, padOk \in BOOLEAN : DecryptWire(c, padOk)
        \/ \E j \in JunkTexts, c \in Contexts : DecryptJunk(j, c, FALSE)
        \/ EmergencyKeyRotation
  \/ \E region \in Regions, k \in 0..2 : Tamper(region, k)

Spec == Init /\ [][Next]_vars

(***************************************************************************)
(* Properties of the engine                                                *)
(***************************************************************************)
\* The last call was a decrypt of the ciphertext the last encrypt returned,
\* byte for byte.
DecryptedIssued == result.op = "decrypt" /\ result.input = "issued"

\* C1 (as claimed): a decrypt of what encrypt(P, C) returned, under the same
\* context C and with no key rotation in between, returns exactly P, whatever
\* the plaintext and however much time passed.
C1_RoundTrip ==
  (DecryptedIssued /\ result.ctx = issued.ctx /\ result.rotations = issued.rotations)
    => (result.outcome = "returned" /\ result.plain = issued.plainText)

\* C2: a decrypt of what encrypt returned, made after the master key was
\* rotated, throws the decryption error and hands back no plaintext.
C2_RotationInvalidates ==
  (DecryptedIssued /\ result.rotations > issued.rotations)
    => (result.outcome = "threw" /\ result.error = "DECRYPTION_FAILED"
        /\ result.plain = "-")

\* A JSON plaintext was encrypted, the key was rotated in the same millisecond,
\* and the decrypt under the same context failed at layer 3.
C2_Witness ==
  /\ DecryptedIssued
  /\ result.rotations > issued.rotations
  /\ result.ctx = issued.ctx /\ result.t = issued.t /\ JsonParses(issued.plainText)
  /\ result.outcome = "threw" /\ result.cause = "bad decrypt"

\* The inputs whose leading bytes are not the magic signature.
BadMagicInputs ==
  {j \in JunkTexts :
     \/ Len(junkText(j).bytes) < Len(SECUREVIBE_SIGNATURE)
     \/ SubSeq(junkText(j).bytes, 1, Len(SECUREVIBE_SIGNATURE)) # SECUREVIBE_SIGNATURE}
  \cup {"signature"}

\* C3: a decrypt of an input whose leading bytes are not the magic signature
\* throws without running layer 3, layer 2, the session-key derivation or
\* layer 1, and the log gets a SECURITY_INCIDENT record right before the
\* record of the failure.
C3_FailClosedGate ==
  (result.op = "decrypt" /\ result.input \in BadMagicInputs)
    => /\ result.outcome = "threw"
       /\ result.stages = {}
       /\ Len(result.appended) >= 2
       /\ result.appended[Len(result.appended) - 1] = "SECURITY_INCIDENT"
       /\ result.appended[Len(result.appended)] = "DECRYPTION"

\* A truncated ciphertext (half of the signature) was rejected at the gate.
C3_Witness ==
  /\ result.op = "decrypt" /\ result.input = "truncated"
  /\ result.outcome = "threw" /\ result.cause = "INVALID_SIGNATURE"

\* C4 (as claimed): a decrypt of an encrypt output with exactly one byte
\* changed, wherever the byte lies, throws and returns nothing.
C4_TamperDetected ==
  (result.op = "decrypt" /\ result.input \in Regions) => result.outcome = "threw"

EncryptionLayers == {"layer1", "layer2", "layer3", "layer4"}

\* C5: an encrypt whose context detectAttackPattern flags appends a
\* SECURITY_INCIDENT record, runs none of the encryption layers, returns no
\* ciphertext and throws.
C5_FlaggedNeverEncrypted ==
  (result.op = "encrypt" /\ result.flagged)
    => /\ result.outcome = "threw"
       /\ result.value = NoValue
       /\ result.stages \cap EncryptionLayers = {}
       /\ \E i \in 1..Len(result.appended) : result.appended[i] = "SECURITY_INCIDENT"

\* An encrypt from the scanner's context was flagged and threw.
C5_Witness ==
  /\ result.op = "encrypt" /\ result.flagged /\ result.ctx = "scanner"
  /\ result.outcome = "threw" /\ result.cause = "SECURITY_VIOLATION_DETECTED"

(***************************************************************************)
(* SpecAttack: encrypt calls only, one source identifier followed past the *)
(* request ceiling, the others for MaxRequests calls                       *)
(***************************************************************************)
MaxRequests == 3
FloodBeyond == 2
FloodedIp == "1.2.3.4"
AttackInstants == {BURST_WINDOW - 1, BURST_WINDOW}

requestCountOf(ip) ==
  IF ip \in DOMAIN attackPatterns THEN attackPatterns[ip].requestCount ELSE 0

withinBudget(c) ==
  requestCountOf(ipOf(c)) <
    (IF ipOf(c) = FloodedIp THEN REQUEST_CEILING + FloodBeyond ELSE MaxRequests)

AttackContexts == {"browser", "scanner"}

NextAttack ==
  \/ Advance(AttackInstants)
  \/ \E c \in AttackContexts, iv \in RandomIVs :
       withinBudget(c) /\ EncryptCall("{\"a\":1}", c, iv, iv)

SpecAttack == Init /\ [][NextAttack]_vars

\* C6: every encrypt call made for an identifier whose request count has
\* passed the ceiling of 100 is flagged by detectAttackPattern and fails,
\* whatever its user-agent and body and whenever it is made.
C6_CeilingIsPermanent ==
  (result.op = "encrypt" /\ requestCountOf(ipOf(result.ctx)) > REQUEST_CEILING)
    => (result.flagged /\ result.outcome = "threw")

\* The 102nd call of an identifier, made with a harmless user-agent and body
\* and long after the first one, was flagged.
C6_Witness ==
  /\ result.op = "encrypt" /\ result.ctx = "browser"
  /\ requestCountOf(ipOf("browser")) = REQUEST_CEILING + 2
  /\ result.t >= BURST_WINDOW
  /\ result.flagged /\ result.outcome = "threw"

levelRank(level) ==
  CASE level = "LOW" -> 0 [] level = "MEDIUM" -> 1 [] level = "HIGH" -> 2
    [] level = "CRITICAL" -> 3

\* C7 (as claimed): the engine's threat level never moves to a lower rank.
C7_NoDeEscalation ==
  [][levelRank(threatLevel') >= levelRank(threatLevel)]_vars

(***************************************************************************)
(* SpecTracker: requests through detectSuspiciousActivity.  One            *)
(* (identifier, path) is followed until MaxOver requests past its limit,   *)
(* the other for MaxOther requests per window.                             *)
(***************************************************************************)
MaxOver == 2
MaxOther == 2
TrackerInstants == {RATE_WINDOW, RATE_WINDOW + 1, (2 * RATE_WINDOW) + 2}

countOf(key) == IF key \in DOMAIN requestTracker THEN requestTracker[key].count ELSE 0

withinTraffic(r) ==
  IF countOf(trackerKey(r)) <
       (IF trackerKey(r) = trackerKey("login") THEN RATE_LIMIT + MaxOver ELSE MaxOther)
  THEN TRUE
  ELSE windowElapsed(requestTracker[trackerKey(r)], now)

NextTracker ==
  \/ Advance(TrackerInstants)
  \/ \E r \in Requests : withinTraffic(r) /\ Request(r)

SpecTracker == Init /\ [][NextTracker]_vars

\* The counter of the request answered last.
lastCounter == requestTracker[trackerKey(response.req)]

\* C8: within one window of an (identifier, path) counter, requests 1 to 30
\* are passed to next(), and request 31 is answered 429 RATE_LIMIT_EXCEEDED
\* with a retry hint and not passed on.
C8_RateLimitBoundary ==
  response.req # "-" =>
    /\ lastCounter.count <= RATE_LIMIT => (response.next /\ response.error = noError)
    /\ lastCounter.count = RATE_LIMIT + 1 =>
         /\ ~response.next
         /\ response.error.kind = "RATE_LIMIT_EXCEEDED"
         /\ response.error.status = 429
         /\ response.error.retryAfter > 0

\* Thirty requests went through in one window and the thirty-first was refused.
C8_Witness ==
  /\ response.req = "login" /\ ~response.next /\ response.error.status = 429
  /\ lastCounter.count = RATE_LIMIT + 1
  /\ response.t - lastCounter.firstRequest <= RATE_WINDOW

\* C9: a request that finds its counter's window elapsed (now - windowStart
\* > 60 s) is passed on and restarts the counter at count 1, windowStart now,
\* however far over the limit the counter was; any other request, accepted or
\* rejected, leaves windowStart as it is.
C9_WindowRecovery ==
  [][\A k \in TrackerKeys :
       (k \in DOMAIN requestTracker /\ requestTracker'[k] # requestTracker[k]) =>
         IF now - requestTracker[k].firstRequest > RATE_WINDOW
         THEN /\ response'.next
              /\ requestTracker'[k] = [count |-> 1, firstRequest |-> now]
         ELSE /\ requestTracker'[k].firstRequest = requestTracker[k].firstRequest
              /\ requestTracker'[k].count = requestTracker[k].count + 1]_vars

\* A counter that stood over its limit was restarted by a request made after
\* its window had elapsed.
C9_Witness ==
  /\ response.req = "login" /\ response.next
  /\ response.countBefore > RATE_LIMIT
  /\ lastCounter = [count |-> 1, firstRequest |-> response.t]

\* How many of the times in a history lie in [from, from + 60 s].
acceptedWithin(times, from) ==
  Cardinality({i \in 1..Len(times) : times[i] >= from /\ times[i] <= from + RATE_WINDOW})

\* C10 (as claimed): in every interval of 60 s, wherever it starts, at most
\* 30 requests of one (identifier, path) are passed to next().
C10_SlidingWindow ==
  \A k \in TrackerKeys : \A i \in 1..Len(accepted[k]) :
     acceptedWithin(accepted[k], accepted[k][i]) <= RATE_LIMIT

\* C10 (amended): at most 30 requests are passed on in the 60 s that follow a
\* counter's windowStart, and at most 60 in any interval of 60 s.
C10_FixedWindow ==
  \A k \in DOMAIN requestTracker :
     /\ acceptedWithin(accepted[k], requestTracker[k].firstRequest) <= RATE_LIMIT
     /\ \A i \in 1..Len(accepted[k]) :
          acceptedWithin(accepted[k], accepted[k][i]) <= 2 * RATE_LIMIT

\* A window was filled up to its limit, the next request in it was refused.
C10_Witness ==
  /\ response.req = "login" /\ ~response.next
  /\ acceptedWithin(accepted[trackerKey("login")], lastCounter.firstRequest) = RATE_LIMIT

\* C11 (as claimed): a request whose body holds "' UNION SELECT", within its
\* rate limit, is flagged by detectSuspiciousActivity and leaves the engine's
\* per-identifier attack-pattern table or its threat level changed.
C11_SharedRecordUpdated ==
  [][(Request("inject") /\ response'.next /\ response'.suspiciousActivity)
       => <<attackPatterns, threatLevel>>' # <<attackPatterns, threatLevel>>]_vars

(***************************************************************************)
(* SpecLog: one caller fills the security log past its cap with decrypts   *)
(* of the empty string, emergency rotations and a few encrypts             *)
(***************************************************************************)
LogBeyond == 2
MaxEmergency == 1

NextLog ==
  /\ securityLog.len < LOG_CAP + LogBeyond
  /\ \/ DecryptJunk("empty", "browser", FALSE)
     \/ rotations < MaxEmergency /\ EmergencyKeyRotation
     \/ /\ requestCountOf(FloodedIp) < MaxRequests
        /\ \E iv \in RandomIVs : EncryptCall("{\"a\":1}", "browser", iv, iv)

SpecLog == Init /\ [][NextLog]_vars

\* C12 (as claimed): whatever operations ran, the security log holds at most
\* 1000 records.
C12_BoundedLog == securityLog.len <= LOG_CAP

(***************************************************************************)
(* Errors of the engine, as the caller sees them                           *)
(***************************************************************************)
\* The errors thrown inside encrypt and decrypt by the security checks.
SecurityCauses ==
  {"SECURITY_VIOLATION_DETECTED", "INVALID_SIGNATURE", "DECRYPTION_INTEGRITY_VIOLATION"}

genericError(op) == IF op = "encrypt" THEN "ENCRYPTION_FAILED" ELSE "DECRYPTION_FAILED"

\* C13 (as claimed): a call that fails because a security check tripped throws
\* the error named after that check, and only the other failures throw the
\* generic ENCRYPTION_FAILED / DECRYPTION_FAILED.
C13_ErrorKindMatchesCause ==
  result.outcome = "threw"
    => result.error = (IF result.cause \in SecurityCauses THEN result.cause
                       ELSE genericError(result.op))

\* C13 (amended): every failing encrypt throws ENCRYPTION_FAILED and every
\* failing decrypt throws DECRYPTION_FAILED, whatever the cause; a call that
\* returns throws nothing.
C13_GenericErrorKind ==
  /\ result.outcome = "threw" => result.error = genericError(result.op)
  /\ result.outcome = "returned" => result.error = "-"

\* An encrypt flagged for the body of its context, a decrypt of a bad
\* signature, or a decrypt whose plaintext is not JSON threw the generic error.
C13_Witness ==
  /\ result.outcome = "threw"
  /\ result.cause \in SecurityCauses
  /\ result.error = genericError(result.op)
  /\ result.op = "encrypt" => result.ctx = "sqli"
  /\ result.op = "decrypt" => result.cause = "DECRYPTION_INTEGRITY_VIOLATION"

\* What the caller of a failed call can observe.
observable(r) == [outcome |-> r.outcome, error |-> r.error, value |-> r.value, plain |-> r.plain]

\* The encrypt calls that would fail if made now.
FailedEncrypts ==
  {r \in {encrypt(Engine, p, c, now, iv, iv) :
            p \in EncryptArguments, c \in Contexts, iv \in RandomIVs} : r.outcome = "threw"}

\* The texts a caller may hand to decrypt now.
DecryptArguments ==
  {junkText(j) : j \in JunkTexts} \cup (IF wire.text.t = "base64" THEN {wire.text} ELSE {})

\* The decrypt calls that would fail if made now.
FailedDecrypts ==
  {r \in {decrypt(Engine, x, c, now, padOk) :
            x \in DecryptArguments, c \in Contexts, padOk \in BOOLEAN} : r.outcome = "threw"}

MaxRotationLog == 5
RotationInstants ==
  {1, KEY_ROTATION_INTERVAL, KEY_ROTATION_INTERVAL + 1,
   (2 * KEY_ROTATION_INTERVAL) + 1, (2 * KEY_ROTATION_INTERVAL) + 2}

NextRotation ==
  \/ Advance(RotationInstants)
  \/ /\ securityLog.len < MaxRotationLog
     /\ \/ \E iv \in RandomIVs : EncryptCall("{\"a\":1}", "browser", iv, iv)
        \/ \E padOk \in BOOLEAN : DecryptWire("browser", padOk)
        \/ DecryptJunk("empty", "browser", FALSE)
        \/ EmergencyKeyRotation

SpecRotation == Init /\ [][NextRotation]_vars

\* The engine's fields after the step.
EngineAfter ==
  [masterKey |-> masterKey', lastKeyRotation |-> lastKeyRotation',
   attackPatterns |-> attackPatterns', threatLevel |-> threatLevel',
   securityLog |-> securityLog']

\* The step pushed records, the last of them the record of an encrypt or a
\* decrypt call: the step is such a call.
CallStep ==
  /\ securityLog'.len > securityLog.len
  /\ securityLog'.tail[Len(securityLog'.tail)].event \in {"ENCRYPTION", "DECRYPTION"}

\* C15: an encrypt or decrypt call made when more than the rotation interval
\* has passed since lastKeyRotation replaces the master key, sets
\* lastKeyRotation to now and pushes one KEY_ROTATION record; a call made
\* earlier leaves the key and lastKeyRotation alone and pushes none; nothing
\* else pushes a KEY_ROTATION record and lastKeyRotation never moves back, so
\* two scheduled rotations are more than one interval apart.
C15_ScheduledRotation ==
  [][/\ CallStep =>
          IF now - lastKeyRotation > KEY_ROTATION_INTERVAL
          THEN /\ masterKey' # masterKey
               /\ lastKeyRotation' = now
               /\ securityLog'.keyRotations = securityLog.keyRotations + 1
          ELSE /\ masterKey' = masterKey
               /\ lastKeyRotation' = lastKeyRotation
               /\ securityLog'.keyRotations = securityLog.keyRotations
     /\ ~CallStep => securityLog'.keyRotations = securityLog.keyRotations
     /\ lastKeyRotation' >= lastKeyRotation
     /\ lastKeyRotation' <= now']_vars

\* Two scheduled rotations have happened, and the call made last, in the
\* millisecond of the second one, did not rotate again.
C15_Witness ==
  /\ securityLog.keyRotations = 2
  /\ result.op \in {"encrypt", "decrypt"}
  /\ result.t = lastKeyRotation
  /\ Len(result.appended) = 1 /\ result.appended[1] # "KEY_ROTATION"
  /\ securityLog.len = MaxRotationLog

\* C16: emergencyKeyRotation, whenever called, replaces the master key, sets
\* lastKeyRotation to now so that no scheduled rotation is due until more than
\* a full interval later, pushes an EMERGENCY_KEY_ROTATION record and returns
\* success; the ciphertext in the caller's hands can no longer be decrypted,
\* now or later, under any context.
C16_EmergencyRotation ==
  [][EmergencyKeyRotation =>
       /\ masterKey' # masterKey
       /\ lastKeyRotation' = now
       /\ ~rotationDue(EngineAfter, now + KEY_ROTATION_INTERVAL)
       /\ rotationDue(EngineAfter, now + KEY_ROTATION_INTERVAL + 1)
       /\ securityLog'.len = securityLog.len + 1
       /\ securityLog'.tail[Len(securityLog'.tail)].event = "EMERGENCY_KEY_ROTATION"
       /\ securityLog'.keyRotations = securityLog.keyRotations
       /\ result'.outcome = "returned" /\ result'.value.success
       /\ wire.text.t = "base64" =>
            \A c \in Contexts, padOk \in BOOLEAN, t \in {now} \cup RotationInstants :
              t >= now => decrypt(EngineAfter, wire.text, c, t, padOk).outcome = "threw"]_vars

\* An emergency rotation was made while the caller held a ciphertext and a
\* scheduled rotation was overdue; the decrypt that followed, an interval
\* after the key was last rotated on schedule, failed and rotated nothing.
C16_Witness ==
  /\ result.op = "decrypt" /\ result.input = "issued" /\ result.outcome = "threw"
  /\ securityLog.len >= 3
  /\ securityLog.tail[Len(securityLog.tail) - 1].event = "EMERGENCY_KEY_ROTATION"
  /\ lastKeyRotation > KEY_ROTATION_INTERVAL
  /\ securityLog.keyRotations = 0

(***************************************************************************)
(* SpecQuota: requests of one principal through userRateLimit, followed    *)
(* until UserOver requests past its counter's limit, while an              *)
(* administrator moves the principal between the tiers                     *)
(***************************************************************************)
UserOver == 2
QuotaInstants == {USER_WINDOW, USER_WINDOW + 1}
QuotaKeys == ApiKeys \cup {<<"key", "mallory">>, NoHeader}

userTraffic(apiKey) ==
  LET u == findOne(users, apiKey)
  IN  IF apiKey = NoHeader THEN TRUE
      ELSE IF u = NoUser THEN TRUE
      ELSE IF userKey(u) \notin DOMAIN userRequestTracker THEN TRUE
      ELSE IF userRequestTracker[userKey(u)].count
                < userRequestTracker[userKey(u)].limit + UserOver THEN TRUE
      ELSE userWindowElapsed(userRequestTracker[userKey(u)], now)

NextQuota ==
  \/ Advance(QuotaInstants)
  \/ \E apiKey \in QuotaKeys, lookup \in Lookups :
       userTraffic(apiKey) /\ UserRequest(apiKey, lookup)
  \/ \E u \in UserIds, isPaid \in BOOLEAN : SetTier(u, isPaid)

SpecQuota == Init /\ [][NextQuota]_vars

\* C17 (as claimed): a request that detectSuspiciousActivity or userRateLimit
\* rejects is answered with status 429, a category and a retry hint.
C17_StructuredRejection ==
  /\ (response.req # "-" /\ ~response.next)
       => /\ response.error.status = RATE_LIMIT_CODE
          /\ response.error.category # "-"
          /\ response.error.retryAfter > 0
  /\ (verdict.mw = "userRateLimit" /\ ~verdict.next)
       => /\ verdict.status = RATE_LIMIT_CODE
          /\ verdict.error.category # "-"
          /\ verdict.error.retryAfter > 0

\* C18 (as claimed): userRateLimit lets a request of a principal through
\* exactly when the count of its window is within the quota of the tier the
\* principal is on at that moment: 1000 on the paid tier, 100 on the base tier.
C18_TierQuota ==
  (verdict.mw = "userRateLimit" /\ verdict.user # NoUser)
    => (verdict.next <=> verdict.count <= limitsOf(verdict.isPaid).requests)

(***************************************************************************)
(* SpecSignature: requests through verifyRequestSignature, until a         *)
(* principal's security log holds MaxSecurityLogs events                   *)
(***************************************************************************)
MaxSecurityLogs == 2
SignatureInstants == {FRESHNESS_WINDOW, FRESHNESS_WINDOW + 1}

STR_abc == <<"a", "b", "c">>

\* The x-timestamp headers: none, three times written in digits, a text that
\* is no number, and a time followed by letters.
TimestampTexts ==
  {NoHeader, toString(0), toString(FRESHNESS_WINDOW + 1), toString((2 * FRESHNESS_WINDOW) + 2),
   STR_abc, toString(0) \o STR_abc}

\* The x-request-signature headers a client may send with a timestamp and a
\* key: none, the HMAC made with that key, and an HMAC made with another key.
signatureHeader(kind, apiKey, timestamp) ==
  CASE kind = "absent" -> NoHeader
    [] kind = "valid" -> hmacHex(apiKey, signedPayload(timestamp, STR_emptyObject))
    [] kind = "forged" -> hmacHex(<<"key", "guess">>, signedPayload(timestamp, STR_emptyObject))

SignedRequests ==
  {[signature |-> signatureHeader(kind, apiKey, timestamp), timestamp |-> timestamp,
    apiKey |-> apiKey, body |-> STR_emptyObject] :
     kind \in {"absent", "valid", "forged"}, timestamp \in TimestampTexts, apiKey \in QuotaKeys}

NextSignature ==
  \/ Advance(SignatureInstants)
  \/ /\ \A u \in UserIds : Len(users[u].securityLogs) < MaxSecurityLogs
     /\ \E req \in SignedRequests, lookup \in Lookups : SignedRequest(req, lookup)

SpecSignature == Init /\ [][NextSignature]_vars

\* The request carries the three signing headers.
allHeaders(req) ==
  req.signature # NoHeader /\ req.timestamp # NoHeader /\ req.apiKey # NoHeader

\* The x-timestamp header is a number and denotes a time no more than the
\* freshness window away from t.
freshAt(req, t) ==
  /\ req.timestamp # NoHeader
  /\ \A i \in 1..Len(req.timestamp) : isDigit(req.timestamp[i])
  /\ abs(t - parseInt(req.timestamp).value) <= FRESHNESS_WINDOW

\* C19: a request with the three headers, a fresh timestamp and a key that
\* resolves to a principal, whose signature is not the HMAC of timestamp + body,
\* gets an INVALID_SIGNATURE event appended to that principal's security log
\* (and to no other), is answered 401, is not passed to next() and gets no
\* req.verifiedUser.
C19_SignatureMismatch ==
  [][\A req \in SignedRequests :
       LET u == findOne(users, req.apiKey)
       IN  (/\ SignedRequest(req, "answers")
            /\ allHeaders(req)
            /\ freshAt(req, now)
            /\ u # NoUser
            /\ req.signature # hmacHex(req.apiKey, signedPayload(req.timestamp, req.body)))
             => /\ users' = [users EXCEPT ![u].securityLogs = Append(@, "INVALID_SIGNATURE")]
                /\ verdict'.status = UNAUTHORIZED_CODE
                /\ ~verdict'.next
                /\ verdict'.verifiedUser = NoUser]_vars

\* A forged signature under a fresh timestamp and alice's key was answered
\* 401 and logged against alice, for the second time.
C19_Witness ==
  /\ verdict.mw = "verifyRequestSignature"
  /\ verdict.message = "Invalid request signature"
  /\ freshAt(verdict.req, verdict.t)
  /\ verdict.user = "alice"
  /\ users["alice"].securityLogs = <<"INVALID_SIGNATURE", "INVALID_SIGNATURE">>

\* C20 (as claimed): verifyRequestSignature sets req.verifiedUser only for a
\* request whose timestamp is a number within the freshness window and whose
\* signature is the HMAC of timestamp + body under the caller's key; a request
\* with the three headers whose timestamp is stale, too far in the future or
\* no number is answered 401 and not passed on.
C20_AntiReplay ==
  verdict.mw = "verifyRequestSignature"
    => /\ verdict.verifiedUser # NoUser
            => /\ freshAt(verdict.req, verdict.t)
               /\ verdict.next
               /\ verdict.req.signature =
                    hmacHex(users[verdict.verifiedUser].apiKey,
                            signedPayload(verdict.req.timestamp, verdict.req.body))
       /\ (allHeaders(verdict.req) /\ ~freshAt(verdict.req, verdict.t))
            => (~verdict.next /\ verdict.status = UNAUTHORIZED_CODE)

(***************************************************************************)
(* The session key                                                         *)
(***************************************************************************)
\* C21 (as claimed): the session key is a function of the master key and the
\* context alone, so the key a decrypt derives is the key the encrypt derived
\* when the context is the same and the master key was not rotated in between,
\* whatever the times of the two calls.
C21_SessionKeyDeterminism ==
  (/\ DecryptedIssued
   /\ result.ctx = issued.ctx
   /\ result.rotations = issued.rotations
   /\ "sessionKey" \in result.stages)
    => generateSessionKey(Engine, result.ctx, result.t)
         = generateSessionKey(Engine, issued.ctx, issued.t)

(***************************************************************************)
(* SpecLinks: MaxLinks magic links are made and requested, before and      *)
(* after their expiry, while the cleanup timer fires                       *)
(***************************************************************************)
MaxLinks == 2
LinkInstants == {1, MAGIC_LINK_TTL, MAGIC_LINK_TTL + 1, (2 * MAGIC_LINK_TTL) + 2}

NextLinks ==
  \/ Advance(LinkInstants)
  \/ /\ Cardinality(DOMAIN linkLog) < MaxLinks
     /\ \E body \in LinkBodies, redirectUri \in RedirectUris, mail \in MailOutcomes :
          PostMagicLink(body, redirectUri, mail)
  \/ \E id \in 1..(MaxLinks + 1) : GetMagicLink(id)
  \/ CleanupMagicLinks

SpecLinks == Init /\ [][NextLinks]_vars

InitErrors == Started /\ nodeEnv \in NodeEnvs

NextErrors == \E err \in Errors, xDebug \in DebugHeaders : HandleError(err, xDebug)

SpecErrors == InitErrors /\ [][NextErrors]_vars

\* C23 (as claimed): under NODE_ENV=production the response errorMiddleware
\* renders holds neither the details of the error nor a stack, nor the message
\* of an exception that is no SecureVibeError, whatever the error and whatever
\* headers the request carries.
C23_NoDetailLeak ==
  (nodeEnv = "production" /\ rendered.status # 0)
    => /\ rendered.body.details = "-"
       /\ rendered.body.stack = "-"
       /\ rendered.err.class = "Error" => rendered.body.message # rendered.err.message

(***************************************************************************)
(* What the calls of the engine leave in the security log (Spec)           *)
(***************************************************************************)
\* The records the last call pushed are the KEY_ROTATION records counted by
\* the log, then a SECURITY_INCIDENT record exactly when a security check
\* tripped, then one record of the event given, which tells the outcome of
\* the call.
loggedOnce(event) ==
  LET tail == securityLog.tail
      last == tail[Len(tail)]
      tripped == result.cause \in SecurityCauses
  IN  /\ result.pushed = result.keyRotations + (IF tripped THEN 1 ELSE 0) + 1
      /\ last.event = event
      /\ last.ctx = result.ctx
      /\ result.outcome = "returned" <=> last.status = "SUCCESS"
      /\ result.outcome = "threw" <=> last.status = "FAILED"
      /\ last.status = "SUCCESS" => last.error = "-"
      /\ last.status = "FAILED"
           => (last.error = result.cause /\ last.error # genericError(result.op))
      /\ tripped => /\ last.status = "FAILED"
                    /\ tail[Len(tail) - 1].event = "SECURITY_INCIDENT"

\* C24: every encrypt call pushes exactly one ENCRYPTION record and every
\* decrypt call exactly one DECRYPTION record, SUCCESS exactly when the call
\* returned, FAILED with the real cause exactly when it threw, and preceded by
\* the SECURITY_INCIDENT record when a security check tripped.
C24_OutcomeLogging ==
  /\ result.op = "encrypt" => loggedOnce("ENCRYPTION")
  /\ result.op = "decrypt" => loggedOnce("DECRYPTION")

\* A decrypt that followed a scheduled rotation was refused at the signature
\* gate: the log ends with the incident and the FAILED record.
C24_Witness ==
  /\ result.op = "decrypt" /\ result.cause = "INVALID_SIGNATURE"
  /\ securityLog.keyRotations = 1
  /\ result.t = lastKeyRotation
  /\ securityLog.tail[Len(securityLog.tail)].status = "FAILED"
  /\ securityLog.tail[Len(securityLog.tail) - 1].event = "SECURITY_INCIDENT"

(***************************************************************************)
(* The attack-pattern table (SpecAttack)                                   *)
(***************************************************************************)
\* C25: the first detectAttackPattern call for an identifier creates its
\* record; every call for the identifier, flagged or not, adds exactly 1 to
\* its requestCount and leaves the other records alone; no step lowers a
\* requestCount or shortens a suspiciousPatterns list or removes a record, and
\* no record appears but by a call for its identifier.
C25_RecordLifecycle ==
  [][/\ \A ip \in DOMAIN attackPatterns :
          /\ ip \in DOMAIN attackPatterns'
          /\ attackPatterns'[ip].requestCount >= attackPatterns[ip].requestCount
          /\ attackPatterns'[ip].suspiciousPatterns >= attackPatterns[ip].suspiciousPatterns
          /\ attackPatterns'[ip].firstRequest = attackPatterns[ip].firstRequest
     /\ \A c \in AttackContexts :
          (\E iv \in RandomIVs : EncryptCall("{\"a\":1}", c, iv, iv))
            => /\ DOMAIN attackPatterns' = DOMAIN attackPatterns \cup {ipOf(c)}
               /\ attackPatterns'[ipOf(c)].requestCount = requestCountOf(ipOf(c)) + 1
               /\ ipOf(c) \notin DOMAIN attackPatterns
                    => attackPatterns'[ipOf(c)].firstRequest = now
               /\ \A ip \in DOMAIN attackPatterns :
                    ip # ipOf(c) => attackPatterns'[ip] = attackPatterns[ip]
     /\ \A ip \in DOMAIN attackPatterns' :
          ip \notin DOMAIN attackPatterns
            => (result'.op = "encrypt" /\ ipOf(result'.ctx) = ip)]_vars

\* One identifier is past the ceiling and its flagged calls were counted like
\* the others; the scanner has a record of its own.
C25_Witness ==
  /\ requestCountOf(FloodedIp) = REQUEST_CEILING + FloodBeyond
  /\ attackPatterns[FloodedIp].suspiciousPatterns >= FloodBeyond
  /\ requestCountOf(ipOf("scanner")) = MaxRequests
  /\ attackPatterns[ipOf("scanner")].suspiciousPatterns = MaxRequests

(***************************************************************************)
(* SpecConcurrent: up to MaxPending invocations of userRateLimit are       *)
(* suspended at the lookup at a time and resume in any order, until the    *)
(* principal is UserOver requests past its limit                           *)
(***************************************************************************)
MaxPending == 2
ConcurrentInstants == {1, USER_WINDOW, USER_WINDOW + 1}

pendingTotal(p) == p[<<apiKeyOf("alice"), "answers">>] + p[<<apiKeyOf("alice"), "rejects">>]
                   + p[<<<<"key", "mallory">>, "answers">>]
                   + p[<<<<"key", "mallory">>, "rejects">>]

concurrentTraffic(apiKey) ==
  LET u == findOne(users, apiKey)
  IN  IF apiKey = NoHeader THEN TRUE
      ELSE IF u = NoUser THEN TRUE
      ELSE IF userKey(u) \notin DOMAIN userRequestTracker THEN TRUE
      ELSE IF userRequestTracker[userKey(u)].count + pending[<<apiKey, "answers">>]
                < userRequestTracker[userKey(u)].limit + UserOver THEN TRUE
      ELSE userWindowElapsed(userRequestTracker[userKey(u)], now)

NextConcurrent ==
  \/ Advance(ConcurrentInstants)
  \/ \E apiKey \in QuotaKeys, lookup \in Lookups :
       /\ pendingTotal(pending) < MaxPending
       /\ concurrentTraffic(apiKey)
       /\ UserRateLimitEnter(apiKey, lookup)
  \/ \E kind \in PendingKinds : UserRateLimitResume(kind[1], kind[2])

SpecConcurrent == Init /\ [][NextConcurrent]_vars

\* C26: however the suspended invocations of a principal interleave, once n
\* of them have completed within one window the counter stands at n and
\* max(0, n - limit) of them were rejected.
C26_NoLostUpdate ==
  /\ DOMAIN served = DOMAIN userRequestTracker
  /\ \A key \in DOMAIN userRequestTracker :
       /\ served[key].n = userRequestTracker[key].count
       /\ served[key].rejected =
            (IF served[key].n > userRequestTracker[key].limit
             THEN served[key].n - userRequestTracker[key].limit ELSE 0)

\* The principal's 101st invocation of the window was rejected while another
\* one, entered before it completed, is still suspended at the lookup.
C26_Witness ==
  /\ userKey("alice") \in DOMAIN served
  /\ served[userKey("alice")].n = FREE_REQUESTS + 1
  /\ served[userKey("alice")].rejected = 1
  /\ verdict.mw = "userRateLimit" /\ ~verdict.next /\ verdict.user = "alice"
  /\ pending[<<apiKeyOf("alice"), "answers">>] = 1

(***************************************************************************)
(* The annotation of detectSuspiciousActivity (SpecTracker)                *)
(***************************************************************************)
\* C27: a request that matches an attack signature (the one whose body holds
\* "' UNION SELECT") and whose counter is within the limit is passed to next()
\* with req.suspiciousActivity set; a request is rejected only when its counter
\* is past the limit, with the rate-limit error; and at any moment the
\* matching and the non-matching request of one (identifier, path) would get
\* the same verdict, the same error and leave the same counters.
C27_AnnotateNeverReject ==
  /\ response.req = "inject"
       => /\ response.suspiciousActivity
          /\ lastCounter.count <= RATE_LIMIT => (response.next /\ response.error = noError)
  /\ response.req \in {"login", "other"} => ~response.suspiciousActivity
  /\ (response.req # "-" /\ ~response.next)
       => (response.error = rateLimitExceeded /\ lastCounter.count > RATE_LIMIT)
  /\ LET plain == detectSuspiciousActivity(requestTracker, "login", now)
         matching == detectSuspiciousActivity(requestTracker, "inject", now)
     IN  /\ matching.next = plain.next
         /\ matching.error = plain.error
         /\ matching.tracker = plain.tracker
         /\ matching.suspiciousActivity /\ ~plain.suspiciousActivity

\* The thirtieth request of a window matched a signature: it was annotated
\* and passed on, and the next one, matching or not, would be rejected.
C27_Witness ==
  /\ response.req = "inject" /\ response.next /\ response.suspiciousActivity
  /\ lastCounter.count = RATE_LIMIT
  /\ ~detectSuspiciousActivity(requestTracker, "inject", now).next
  /\ ~detectSuspiciousActivity(requestTracker, "login", now).next

(***************************************************************************)
(* What feeds the attack scoring (Spec)                                    *)
(***************************************************************************)
\* The step pushed records, the last of them of the event given.
pushedLast(event) ==
  /\ securityLog'.len > securityLog.len
  /\ securityLog'.tail[Len(securityLog'.tail)].event = event

\* C28: a decrypt call, whether it returns, is refused at the signature gate
\* or fails the integrity check or a layer, leaves the attack-pattern table
\* and the threat level as they were; a step that changes either is an
\* encrypt call.
C28_DecryptLeavesScoring ==
  [][/\ pushedLast("DECRYPTION")
          => (attackPatterns' = attackPatterns /\ threatLevel' = threatLevel)
     /\ <<attackPatterns, threatLevel>>' # <<attackPatterns, threatLevel>>
          => pushedLast("ENCRYPTION")]_vars

\* A decrypt has just failed the integrity check, with an incident logged,
\* and the threat level is still LOW and the caller's record counts one call.
C28_Witness ==
  /\ result.op = "decrypt" /\ result.cause = "DECRYPTION_INTEGRITY_VIOLATION"
  /\ securityLog.tail[Len(securityLog.tail) - 1].event = "SECURITY_INCIDENT"
  /\ threatLevel = "LOW"
  /\ requestCountOf(ipOf(result.ctx)) = 1

(***************************************************************************)
(* userRateLimit without a principal (SpecConcurrent)                      *)
(***************************************************************************)
\* The step completes an invocation of userRateLimit for a request carrying
\* apiKey whose lookup ends as given.
Completes(apiKey, lookup) ==
  \/ apiKey = NoHeader /\ UserRateLimitEnter(apiKey, lookup)
  \/ apiKey # NoHeader /\ UserRateLimitResume(apiKey, lookup)

\* No user holds the key.
unknownKey(apiKey) == \A u \in DOMAIN users : users[u].apiKey # apiKey

\* C29: an invocation of userRateLimit for a request without the x-api-key
\* header, with a key no principal holds, or whose lookup is rejected, calls
\* next(), answers nothing and leaves every counter as it was.
C29_FailsOpen ==
  [][\A apiKey \in QuotaKeys, lookup \in Lookups :
       (/\ Completes(apiKey, lookup)
        /\ (apiKey = NoHeader \/ unknownKey(apiKey) \/ lookup = "rejects"))
         => /\ verdict'.next
            /\ verdict'.error = noError /\ verdict'.status = 0
            /\ userRequestTracker' = userRequestTracker]_vars

\* The lookup of a request of a principal who is past the limit was rejected:
\* the request went through and the counter stayed where it was.
C29_Witness ==
  /\ verdict.mw = "userRateLimit" /\ verdict.lookup = "rejects"
  /\ verdict.req.apiKey = apiKeyOf("alice")
  /\ verdict.next
  /\ userKey("alice") \in DOMAIN userRequestTracker
  /\ userRequestTracker[userKey("alice")].count = FREE_REQUESTS + 1
  /\ now - userRequestTracker[userKey("alice")].firstRequest <= USER_WINDOW

(***************************************************************************)
(* Unsigned requests (SpecSignature)                                       *)
(***************************************************************************)
\* C30: a request that lacks one of x-request-signature, x-timestamp and
\* x-api-key is passed to next(), without an error and without an answer; no
\* freshness check, lookup or HMAC comparison runs, no security event is
\* written to any user, and req.verifiedUser stays unset.
C30_UnsignedBypass ==
  [][(/\ SignedRequest(verdict'.req, verdict'.lookup)
      /\ ~allHeaders(verdict'.req))
       => /\ verdict'.next /\ ~verdict'.nextError
          /\ verdict'.status = 0
          /\ verdict'.stages = {}
          /\ verdict'.verifiedUser = NoUser
          /\ users' = users]_vars

\* A request with a forged signature and alice's key but no x-timestamp went
\* through, after an earlier forgery had been logged against alice.
C30_Witness ==
  /\ verdict.mw = "verifyRequestSignature"
  /\ verdict.req.timestamp = NoHeader
  /\ verdict.req.apiKey = apiKeyOf("alice")
  /\ verdict.req.signature =
       hmacHex(<<"key", "guess">>, signedPayload(NoHeader, STR_emptyObject))
  /\ verdict.next /\ verdict.stages = {}
  /\ users["alice"].securityLogs = <<"INVALID_SIGNATURE">>

====
